---------------------------- MODULE Spec2Model ----------------------------
(***************************************************************************)
(* PulseTrade AI backend: streaming indicators, the analyzer's trigger and *)
(* cooldown evaluator, the bounded queues, the trade log and the WebSocket *)
(* connection manager.                                                     *)
(*                                                                         *)
(* Numbers.  Prices and volumes are integers (the feed's decimals scaled). *)
(* A value the code rounds to two decimals (round(x, 2)) is kept in        *)
(* hundredths: 7000 stands for 70.00.  Timestamps are epoch milliseconds,  *)
(* the wall clock (time.time()) is in whole seconds.                       *)
(***************************************************************************)
EXTENDS Integers, Sequences, FiniteSets, TLC

VARIABLES
    calculators,        \* RSICalculator.calculators: symbol -> TimeBasedRSI
    aggregators,        \* VolumeSpikeDetector.aggregators: symbol -> aggregator
    history,            \* PriceChangeDetector.history: symbol -> [(ts, price)]
    last_prices,        \* LevelCrossDetector.last_prices: symbol -> price
    ret,                \* the last call of a detector and what it returned
    cooldowns,          \* MarketAnalyzer.cooldowns: key -> last trigger time
    stats,              \* MarketAnalyzer counters
    callbacks,          \* MarketAnalyzer callback fields (wired or None)
    clock,              \* time.time()
    emitted,            \* the AlertEvents created, in order: key and wall time
    outcome,            \* the last _maybe_trigger call and how far it went
    pending,            \* _process_trade's position: the triggers still to check
    active_connections, \* ConnectionManager.active_connections
    sockets,            \* each WebSocket: "new", "open", "stalled", "closed", "ended"
    bcast,              \* the broadcasts in progress, one per worker
    tick_queue,         \* main.tick_queue
    alert_queue,        \* main.alert_queue
    qlog,               \* what the queue producers and consumers did
    partitions,         \* the trade topic: partition -> messages
    offsets,            \* the analyzer consumer's position per partition
    plog,               \* trades produced and processed, per symbol
    ingestors,          \* BinanceIngestor and FinageIngestor: flag and position
    lifespan,           \* main.lifespan: its tasks and its position
    price_windows,      \* IndicatorEngine.price_windows: symbol -> deque
    volume_windows,     \* IndicatorEngine.volume_windows: symbol -> deque
    redis,              \* RedisStateManager.client, the server's keys, the calls
    evloop              \* the asyncio event loop: who holds the thread, and where

indVars == <<calculators, aggregators, history, last_prices, ret>>
anVars == <<cooldowns, stats, callbacks, clock, emitted, outcome, pending>>
hubVars == <<active_connections, sockets, bcast>>
queueVars == <<tick_queue, alert_queue, qlog>>
logVars == <<partitions, offsets, plog, ingestors>>
appVars == <<lifespan>>
svcVars == <<price_windows, volume_windows, redis, evloop>>
vars == <<indVars, anVars, hubVars, queueVars, logVars, appVars, svcVars>>

(***************************************************************************)
(* Bounds of the model and the scaled-down constructor parameters.         *)
(***************************************************************************)
\* calls of update in the specification of each detector
MaxRsiTicks == 4
MaxVolumeTicks == 7
MaxPriceTicks == 3
\* RSICalculator(period=...): the analyzer passes 60, the model a small period
Period == 2
\* VolumeSpikeDetector(window_size=...): the analyzer passes 30
WindowSize == 5
\* PriceChangeDetector(window_seconds=...): the analyzer passes 60
WindowSeconds == 2
\* the last second of the event-time domain
MaxSecond == 7

Symbols == {"BTCUSDT", "ETHUSDT"}

None == <<>>
Some(x) == <<x>>

Max(a, b) == IF a >= b THEN a ELSE b
Min(a, b) == IF a <= b THEN a ELSE b
Abs(x) == IF x < 0 THEN -x ELSE x

RECURSIVE SumSeq(_)
SumSeq(s) == IF s = <<>> THEN 0 ELSE Head(s) + SumSeq(Tail(s))

\* the last n elements of s (s[-n:] for n > 0)
LastN(s, n) == IF Len(s) <= n THEN s ELSE SubSeq(s, Len(s) - n + 1, Len(s))

\* deque(maxlen=n).append(x): the oldest entry falls out of a full deque
DequeAppendUnbounded(d, x, maxlen) == Append(d, x)
DequeAppend(d, x, maxlen) == LastN(Append(d, x), maxlen)

\* num/den (den > 0) rounded to the nearest integer, ties to the even one:
\* round() of a value already scaled to hundredths
RoundDiv(num, den) ==
    LET a == Abs(num)
        q == a \div den
        r == a % den
        m == IF 2 * r > den THEN q + 1
             ELSE IF 2 * r < den THEN q
             ELSE IF q % 2 = 0 THEN q ELSE q + 1
    IN  IF num < 0 THEN -m ELSE m

(***************************************************************************)
(* indicators/rsi.py                                                       *)
(***************************************************************************)
RSI_OVERBOUGHT == 7000
RSI_OVERSOLD == 3000

\* TimeBasedRSI.__init__
TimeBasedRSI(period) ==
    [period |-> period, closes |-> <<>>, last_candle_time |-> 0,
     current_price |-> 0]

\* TimeBasedRSI._calculate_rsi, in hundredths
calculate_rsi_neutral(calc) == 5000
calculate_rsi(calc) ==
    IF Len(calc.closes) < 2 THEN 5000
    ELSE
      LET closes == calc.closes
          change(i) == closes[i + 1] - closes[i]
          gains == LastN([i \in 1..(Len(closes) - 1) |->
                            IF change(i) > 0 THEN change(i) ELSE 0], calc.period)
          losses == LastN([i \in 1..(Len(closes) - 1) |->
                            IF change(i) > 0 THEN 0 ELSE Abs(change(i))], calc.period)
          \* the two averages share their divisor, len(gains) = len(losses)
          sum_gain == SumSeq(gains)
          sum_loss == SumSeq(losses)
      IN  IF sum_loss = 0 THEN (IF sum_gain > 0 THEN 10000 ELSE 5000)
          ELSE IF sum_gain = 0 THEN 0
          ELSE RoundDiv(10000 * sum_gain, sum_gain + sum_loss)

\* the append of a close to TimeBasedRSI.closes, a deque(maxlen=period + 1)
ClosesAppendUnbounded(calc, price) == Append(calc.closes, price)
ClosesAppend(calc, price) == DequeAppend(calc.closes, price, calc.period + 1)

\* TimeBasedRSI.add_tick: the calculator after the tick and the value returned
rsi_add_tick(calc, price, timestamp_ms) ==
    LET current_second == timestamp_ms \div 1000
        c0 == [calc EXCEPT !.current_price = price]
    IN  IF c0.last_candle_time = 0
        THEN [calc |-> [c0 EXCEPT !.last_candle_time = current_second,
                                  !.closes = ClosesAppend(c0, price)],
              rsi |-> None]
        ELSE IF current_second > c0.last_candle_time
        THEN LET c1 == [c0 EXCEPT !.closes = ClosesAppend(c0, price),
                                  !.last_candle_time = current_second]
             IN  [calc |-> c1,
                  rsi |-> IF Len(c1.closes) > c1.period
                          THEN Some(calculate_rsi(c1)) ELSE None]
        ELSE [calc |-> IF Len(c0.closes) > 0
                       THEN [c0 EXCEPT !.closes[Len(c0.closes)] = price]
                       ELSE c0,
              rsi |-> None]

\* RSICalculator.update: the calculators after the call and the RSIResult
RSICalculator_update(calcs, symbol, price, timestamp_ms) ==
    LET cs == IF symbol \in DOMAIN calcs THEN calcs
              ELSE calcs @@ (symbol :> TimeBasedRSI(Period))
        r == rsi_add_tick(cs[symbol], price, timestamp_ms)
    IN  [calculators |-> [cs EXCEPT ![symbol] = r.calc],
         result |-> IF r.rsi # None
                    THEN Some([symbol |-> symbol, rsi |-> r.rsi[1],
                               is_overbought |-> r.rsi[1] > RSI_OVERBOUGHT,
                               is_oversold |-> r.rsi[1] < RSI_OVERSOLD])
                    ELSE None]

(***************************************************************************)
(* indicators/volume.py                                                    *)
(***************************************************************************)
\* spike_threshold: float = 5.0
SPIKE_THRESHOLD == 5
\* "Need at least 5 seconds of history"
MIN_WINDOWS == 5

\* TimeBasedVolumeAggregator.__init__
TimeBasedVolumeAggregator(window_size, spike_threshold) ==
    [window_size |-> window_size, spike_threshold |-> spike_threshold,
     window_volumes |-> <<>>, current_window_volume |-> 0,
     last_window_time |-> 0]

\* is_spike=multiplier > self.spike_threshold, multiplier = current / avg and
\* avg = sum_prev / n_prev, compared exactly: current * n_prev > threshold * sum_prev
IsSpikeOfVolume(current_volume, sum_prev, n_prev, threshold) ==
    current_volume > threshold
IsSpike(current_volume, sum_prev, n_prev, threshold) ==
    current_volume * n_prev > threshold * sum_prev

\* TimeBasedVolumeAggregator._calculate_spike; the symbol is set by the caller.
\* current_volume and average_volume (rounded to 8 decimals in the code) are
\* kept exact, the average as the pair sum_prev / n_prev.
calculate_spike(agg, current_volume) ==
    LET previous_volumes == SubSeq(agg.window_volumes, 1, Len(agg.window_volumes) - 1)
        sum_prev == IF previous_volumes = <<>> THEN current_volume
                    ELSE SumSeq(previous_volumes)
        n_prev == IF previous_volumes = <<>> THEN 1 ELSE Len(previous_volumes)
        avg_positive == sum_prev > 0
    IN  [symbol |-> "",
         current_volume |-> current_volume,
         average_sum |-> sum_prev,
         average_n |-> n_prev,
         spike_multiplier |-> IF avg_positive
                              THEN RoundDiv(100 * current_volume * n_prev, sum_prev)
                              ELSE 0,
         is_spike |-> IF avg_positive
                      THEN IsSpike(current_volume, sum_prev, n_prev, agg.spike_threshold)
                      ELSE 0 > agg.spike_threshold]

\* TimeBasedVolumeAggregator.add_tick
volume_add_tick(agg, volume, timestamp_ms) ==
    LET current_second == timestamp_ms \div 1000
    IN  IF agg.last_window_time = 0
        THEN [agg |-> [agg EXCEPT !.last_window_time = current_second,
                                  !.current_window_volume = volume],
              result |-> None]
        ELSE IF current_second > agg.last_window_time
        THEN LET completed_volume == agg.current_window_volume
                 a1 == [agg EXCEPT
                          !.window_volumes =
                              DequeAppend(@, completed_volume, agg.window_size),
                          !.current_window_volume = volume,
                          !.last_window_time = current_second]
             IN  [agg |-> a1,
                  result |-> IF Len(a1.window_volumes) >= MIN_WINDOWS
                             THEN Some(calculate_spike(a1, completed_volume))
                             ELSE None]
        ELSE [agg |-> [agg EXCEPT !.current_window_volume = @ + volume],
              result |-> None]

\* VolumeSpikeDetector.update
VolumeSpikeDetector_update(aggs, symbol, volume, timestamp_ms) ==
    LET as == IF symbol \in DOMAIN aggs THEN aggs
              ELSE aggs @@ (symbol :> TimeBasedVolumeAggregator(WindowSize, SPIKE_THRESHOLD))
        r == volume_add_tick(as[symbol], volume, timestamp_ms)
    IN  [aggregators |-> [as EXCEPT ![symbol] = r.agg],
         result |-> IF r.result # None
                    THEN Some([r.result[1] EXCEPT !.symbol = symbol])
                    ELSE None]

(***************************************************************************)
(* indicators/price.py                                                     *)
(***************************************************************************)
\* PriceChangeDetector(threshold_percent=1.0) in the analyzer; its
\* window_seconds (60 there) is the model's WindowSeconds
THRESHOLD_PERCENT == 1

\* while history and history[0][0] < cutoff: history.pop(0)
PopNothing(h, cutoff) == h
RECURSIVE PopWhileOld(_, _)
PopWhileOld(h, cutoff) ==
    IF h # <<>> /\ h[1][1] < cutoff THEN PopWhileOld(Tail(h), cutoff) ELSE h

\* PriceChangeDetector.update with the detector's window and threshold
PriceChangeDetector_update(hist, window_seconds, symbol, price, timestamp_ms) ==
    LET h0 == IF symbol \in DOMAIN hist THEN hist[symbol] ELSE <<>>
        h1 == Append(h0, <<timestamp_ms, price>>)
        cutoff == timestamp_ms - (window_seconds * 1000)
        h2 == PopWhileOld(h1, cutoff)
        newhist == IF symbol \in DOMAIN hist
                   THEN [hist EXCEPT ![symbol] = h2]
                   ELSE hist @@ (symbol :> h2)
    IN  IF h2 = <<>> THEN [history |-> newhist, result |-> None]
        ELSE
          LET oldest_price == h2[1][2]
              \* abs(change_pct) >= threshold_percent, compared exactly
              is_move == Abs(price - oldest_price) * 100
                           >= THRESHOLD_PERCENT * Abs(oldest_price)
          IN  [history |-> newhist,
               result |-> IF is_move
                          THEN Some([symbol |-> symbol,
                                     change_percent |->
                                         RoundDiv(10000 * (price - oldest_price),
                                                  oldest_price),
                                     time_window_sec |-> window_seconds,
                                     is_whale_move |-> TRUE])
                          ELSE None]

\* LevelCrossDetector(levels=[...]) in the analyzer, sorted
LEVELS == <<68000, 69000, 70000, 95000, 96000, 97000, 98000, 99000, 100000>>

\* the loop over self.levels with the DOWN test left out
RECURSIVE FirstCrossUpOnly(_, _, _, _)
FirstCrossUpOnly(levels, i, last_price, price) ==
    IF i > Len(levels) THEN None
    ELSE IF last_price < levels[i] /\ levels[i] <= price
    THEN Some([level |-> levels[i], direction |-> "UP"])
    ELSE FirstCrossUpOnly(levels, i + 1, last_price, price)

\* the loop over the levels in descending order
RECURSIVE FirstCrossDescending(_, _, _, _)
FirstCrossDescending(levels, i, last_price, price) ==
    IF i > Len(levels) THEN None
    ELSE LET level == levels[Len(levels) - i + 1]
         IN  IF last_price < level /\ level <= price
             THEN Some([level |-> level, direction |-> "UP"])
             ELSE IF last_price > level /\ level >= price
             THEN Some([level |-> level, direction |-> "DOWN"])
             ELSE FirstCrossDescending(levels, i + 1, last_price, price)

\* the loop over self.levels: the first level crossed, UP tested before DOWN
RECURSIVE FirstCross(_, _, _, _)
FirstCross(levels, i, last_price, price) ==
    IF i > Len(levels) THEN None
    ELSE IF last_price < levels[i] /\ levels[i] <= price
    THEN Some([level |-> levels[i], direction |-> "UP"])
    ELSE IF last_price > levels[i] /\ levels[i] >= price
    THEN Some([level |-> levels[i], direction |-> "DOWN"])
    ELSE FirstCross(levels, i + 1, last_price, price)

\* LevelCrossDetector.update with one last price kept for all the symbols
LevelCrossDetector_updateShared(lasts, symbol, price) ==
    [last_prices |-> [x \in DOMAIN lasts \cup {symbol} |-> price],
     result |-> None]

\* LevelCrossDetector.update
LevelCrossDetector_update(lasts, symbol, price) ==
    IF symbol \notin DOMAIN lasts
    THEN [last_prices |-> lasts @@ (symbol :> price), result |-> None]
    ELSE LET c == FirstCross(LEVELS, 1, lasts[symbol], price)
         IN  [last_prices |-> [lasts EXCEPT ![symbol] = price],
              result |-> IF c # None
                         THEN Some([symbol |-> symbol, level |-> c[1].level,
                                    direction |-> c[1].direction, price |-> price])
                         ELSE None]

(***************************************************************************)
(* processors/indicators.py                                                *)
(***************************************************************************)
\* IndicatorEngine(window_size=300) and the tick counts of the two averages
ENGINE_WINDOW_SIZE == 300
SMA_5_TICKS == 30
SMA_20_TICKS == 120

RECURSIVE SumSquares(_)
SumSquares(s) == IF s = <<>> THEN 0 ELSE Head(s) * Head(s) + SumSquares(Tail(s))

RECURSIVE SumProducts(_, _)
SumProducts(s, w) ==
    IF s = <<>> THEN 0 ELSE Head(s) * Head(w) + SumProducts(Tail(s), Tail(w))

\* the fallback "else price" also taken by a window of n ticks and more
EngineSmaAlwaysPrice(prices, n, price) == [num |-> price, den |-> 1]

\* float(np.mean(prices[-n:])) if len(prices) >= n else price, as a fraction
EngineSma(prices, n, price) ==
    IF Len(prices) >= n THEN [num |-> SumSeq(LastN(prices, n)), den |-> n]
    ELSE [num |-> price, den |-> 1]

\* the prices less the first one: the variance does not change with the shift
FromFirst(prices) == [i \in 1..Len(prices) |-> prices[i] - prices[1]]

\* float(np.std(prices)) if len(prices) > 1 else 0.0, squared, as a fraction:
\* the population variance (N * sum(d^2) - sum(d)^2) / N^2 of d = FromFirst
EngineVariance(prices) ==
    IF Len(prices) > 1
    THEN [num |-> Len(prices) * SumSquares(FromFirst(prices))
                    - SumSeq(FromFirst(prices)) * SumSeq(FromFirst(prices)),
          den |-> Len(prices) * Len(prices)]
    ELSE [num |-> 0, den |-> 1]

\* deviation > 2 * volatility if volatility > 0 else False, both sides squared
EngineIsBreakout(price, sma, variance) ==
    IF variance.num > 0
    THEN (price * sma.den - sma.num) * (price * sma.den - sma.num) * variance.den
            > 4 * variance.num * sma.den * sma.den
    ELSE FALSE

\* IndicatorEngine.update: the windows after the call and the snapshot
IndicatorEngine_update(pw, vw, symbol, price, volume) ==
    LET prices == DequeAppend(IF symbol \in DOMAIN pw THEN pw[symbol] ELSE <<>>,
                              price, ENGINE_WINDOW_SIZE)
        volumes == DequeAppend(IF symbol \in DOMAIN vw THEN vw[symbol] ELSE <<>>,
                               volume, ENGINE_WINDOW_SIZE)
        sma_5 == EngineSma(prices, SMA_5_TICKS, price)
        sma_20 == EngineSma(prices, SMA_20_TICKS, price)
        variance == EngineVariance(prices)
        total_volume == SumSeq(volumes)
        vwap == IF total_volume > 0
                THEN [num |-> SumProducts(prices, volumes), den |-> total_volume]
                ELSE [num |-> price, den |-> 1]
        is_breakout == EngineIsBreakout(price, sma_5, variance)
        direction == IF is_breakout
                     THEN (IF price * sma_5.den > sma_5.num THEN "UP" ELSE "DOWN")
                     ELSE "NONE"
    IN  [price_windows |-> IF symbol \in DOMAIN pw THEN [pw EXCEPT ![symbol] = prices]
                           ELSE pw @@ (symbol :> prices),
         volume_windows |-> IF symbol \in DOMAIN vw THEN [vw EXCEPT ![symbol] = volumes]
                            ELSE vw @@ (symbol :> volumes),
         result |-> [symbol |-> symbol, sma_5 |-> sma_5, sma_20 |-> sma_20,
                     variance |-> variance, vwap |-> vwap,
                     is_breakout |-> is_breakout,
                     breakout_direction |-> direction]]

(***************************************************************************)
(* The state after construction.                                           *)
(***************************************************************************)
EmptyMap == [x \in {} |-> 0]

\* the per-symbol detectors of the analyzer and the engine of the worker
Detectors == {"rsi", "volume", "price", "level", "engine"}

\* a second MarketAnalyzer after __init__: detectors, cooldowns, alerts emitted
NoTwin == [calculators |-> EmptyMap, aggregators |-> EmptyMap, history |-> EmptyMap,
           last_prices |-> EmptyMap, cooldowns |-> EmptyMap, emitted |-> <<>>]

NoCall == [n |-> 0, fn |-> "none", symbol |-> "", price |-> 0, volume |-> 0,
           time |-> 0, pre_len |-> 0, result |-> None, sums |-> <<>>,
           seen |-> [d \in Detectors |-> {}], twin |-> NoTwin, dups |-> 0]

InitIndicators ==
    /\ calculators = EmptyMap
    /\ aggregators = EmptyMap
    /\ history = EmptyMap
    /\ last_prices = EmptyMap
    /\ ret = NoCall

\* Cooldown (5 minutes per symbol per trigger type)
COOLDOWN_SECONDS == 300

\* no _maybe_trigger call yet
NoOutcome == [trigger |-> None, at |-> 0, fired |-> FALSE, on_alert |-> FALSE,
              deliveries |-> 0, gate |-> "none", audience |-> 0, llm |-> "none",
              on_analysis |-> FALSE]

\* MarketAnalyzer.__init__.  time.time() is seconds since 1970: the clock
\* starts at the smallest reading that is past one cooldown since the epoch.
InitAnalyzer ==
    /\ cooldowns = EmptyMap
    /\ stats = [trades_processed |-> 0, alerts_triggered |-> 0, alerts_skipped |-> 0]
    /\ callbacks = [on_alert |-> FALSE, on_analysis |-> FALSE,
                    connection_check_callback |-> FALSE]
    /\ clock = COOLDOWN_SECONDS
    /\ emitted = <<>>
    /\ outcome = NoOutcome
    /\ pending = <<>>

\* the WebSocket objects of the clients that may connect
Conns == {"ws1", "ws2"}
\* the tasks that broadcast: processing_worker and intelligence_worker
Workers == {"processing", "intelligence"}

\* no broadcast in progress.  it is the list iterator's index, disconnected
\* the local list; attempts (the sends made), start (the registry when the
\* broadcast began), gone (subscribers others removed meanwhile) and after
\* (the registry when the broadcast returned) record the run.
IdleBroadcast ==
    [pc |-> "idle", kind |-> "", it |-> 0, disconnected |-> <<>>,
     attempts |-> <<>>, start |-> <<>>, gone |-> {}, after |-> <<>>, runs |-> 0]

\* ConnectionManager.__init__
InitHub ==
    /\ active_connections = <<>>
    /\ sockets = [c \in Conns |-> "new"]
    /\ bcast = [w \in Workers |-> IdleBroadcast]

\* no put_nowait yet
NoPut == [queue |-> "none", raised |-> FALSE, before |-> <<>>, after |-> <<>>]

\* tick_queue and alert_queue as created by main.py, nothing sent yet.  qlog
\* counts the ticks that arrived (sends), the QueueFull raised per queue
\* (rejected), the drops the code reported (drop_log) and the Gemini calls,
\* and keeps the last put_nowait and the ticks taken, in order.
InitQueues ==
    /\ tick_queue = <<>>
    /\ alert_queue = <<>>
    /\ qlog = [sends |-> 0, rejected |-> [tick |-> 0, alert |-> 0], drop_log |-> 0,
               last |-> NoPut, taken |-> <<>>, generate_calls |-> 0,
               analysis |-> [llm |-> "none", text |-> "", broadcast |-> FALSE]]

\* partitions of the crypto-trades topic
Partitions == {0, 1}

\* an empty topic, the consumer at the start of each partition.  plog counts
\* the trades produced, keeps the partition the partitioner gave each key and
\* the trades _process_trade got, in order.
InitLog ==
    /\ partitions = [p \in Partitions |-> <<>>]
    /\ offsets = [p \in Partitions |-> 0]
    /\ plog = [produced |-> 0, assigned |-> EmptyMap, processed |-> <<>>,
               consumer |-> "running", poll_errors |-> 0, error_after |-> 0]

\* the feeds with a reconnect loop, and those of them that have a stop()
Feeds == {"binance", "finage", "kite"}
StoppableFeeds == {"binance", "finage"}

\* BinanceIngestor.__init__ (running = False) and FinageIngestor.__init__
\* (_running = True), start / connect not called yet.  reconnect_delay is
\* the local variable of FinageIngestor.connect.  KiteTickerIngestor has no
\* flag and no stop(): its loop is "while True", its running stays TRUE, and
\* its reconnect_delay is the field _reconnect_delay = 1.  failures (failed cycles
\* since the last successful connect), slept (the sleep before the
\* reconnect), attempts (connection attempts started), stopped,
\* stopped_in (position when stop was called), attempts_at_stop and last
\* (what the last received message was) record the run.
InitIngestors ==
    ingestors = [i \in Feeds |->
        [running |-> (i # "binance"), pc |-> "init", message_count |-> 0,
         reconnect_delay |-> 1,
         failures |-> 0, slept |-> None, attempts |-> 0, stopped |-> FALSE,
         stopped_in |-> "", attempts_at_stop |-> 0]]

\* the tasks lifespan creates, in the order of its list: the NSE ingestor
\* (Kite or Yahoo), the Finage ingestor, processing_worker, intelligence_worker
Tasks == <<"ingestor", "finage", "processing_worker", "intelligence_worker">>

\* lifespan before its first statement: tasks = []
InitLifespan ==
    lifespan = [pc |-> "startup", i |-> 0,
                state |-> [n \in 1..Len(Tasks) |-> "none"],
                cancelled |-> {}, awaited |-> {}]

\* IndicatorEngine.__init__
InitEngine ==
    /\ price_windows = EmptyMap
    /\ volume_windows = EmptyMap

\* the instances that share one Redis server, each with its processing worker
Instances == {"w1", "w2"}

\* RedisStateManager.__init__ on every instance, and an empty server.  worker
\* is processing_worker before get_redis_state(), tasks the tasks it made with
\* asyncio.create_task that have not finished, results what save_tick and
\* add_price_point returned.
InitRedis ==
    redis = [client |-> [c \in Instances |-> "new"],
             now |-> 0,
             keys |-> EmptyMap,
             inflight |-> [c \in Instances |-> None],
             calls |-> 0,
             returned |-> {},
             worker |-> [c \in Instances |->
                           [pc |-> "start", tick_count |-> 0, done |-> 0]],
             tasks |-> {},
             results |-> {}]

\* the tasks that share the event loop with MarketAnalyzer.start
OtherTasks == {"ingestor", "subscriber"}

\* the event loop before the first step of MarketAnalyzer.start, which holds
\* the thread; nothing fetched from the topic yet
InitLoop ==
    evloop = [current |-> "analyzer", pc |-> "head", backlog |-> 0, delivered |-> 0,
              yielded |-> FALSE, iterations |-> 0, last_yielded |-> FALSE,
              last_msg |-> "none", ran |-> [t \in OtherTasks |-> 0]]

Init ==
    /\ InitIndicators /\ InitAnalyzer /\ InitHub /\ InitQueues /\ InitLog
    /\ InitIngestors /\ InitLifespan /\ InitEngine /\ InitRedis /\ InitLoop

(***************************************************************************)
(* The detectors on their own: any call sequence, timestamps in any order. *)
(***************************************************************************)
\* event times: whole seconds 0..MaxSecond, in milliseconds
Times == {1000 * k : k \in 0..MaxSecond}
\* the price window is exercised by times up to two seconds past its length
PriceTimes == {t \in Times : t <= 1000 * (WindowSeconds + 2)}
\* the aggregator of one symbol is followed through its first buckets
VolumeSymbols == {"BTCUSDT"}
RsiPrices == {90, 100, 110}
Volumes == {0, 1000, 5001}
WhalePrices == {100, 101, 102}

\* the length of a symbol's deque before the call (0 for a new symbol)
PreLen(map, symbol, field) ==
    IF symbol \in DOMAIN map THEN Len(map[symbol][field]) ELSE 0

\* one call of RSICalculator.update
RsiUpdate ==
    /\ ret.n < MaxRsiTicks
    /\ \E symbol \in Symbols, price \in RsiPrices, t \in Times :
         LET r == RSICalculator_update(calculators, symbol, price, t)
         IN  /\ calculators' = r.calculators
             /\ ret' = [n |-> ret.n + 1, fn |-> "rsi", symbol |-> symbol,
                        price |-> price, volume |-> 0, time |-> t,
                        pre_len |-> PreLen(calculators, symbol, "closes"), result |-> r.result]
    /\ UNCHANGED <<aggregators, history, last_prices>>
    /\ UNCHANGED <<anVars, hubVars, queueVars, logVars, appVars, svcVars>>

\* the volume of each bucket of a symbol, summed over the ticks whose
\* timestamp falls in it: the bucket that is open (the latest one seen) and
\* the last window_size buckets before it, after a tick of that symbol
BucketSums(sums, aggs, symbol, volume, timestamp_ms) ==
    IF symbol \notin DOMAIN sums
    THEN sums @@ (symbol :> [bucket |-> timestamp_ms \div 1000, open |-> volume,
                             closed |-> <<>>])
    ELSE LET b == timestamp_ms \div 1000
             old == sums[symbol]
         IN  [sums EXCEPT ![symbol] =
                 IF b > old.bucket
                 THEN [bucket |-> b, open |-> volume,
                       closed |-> DequeAppend(old.closed, old.open, WindowSize)]
                 ELSE IF b = old.bucket THEN [old EXCEPT !.open = @ + volume]
                 ELSE old]

\* the timestamps of the next volume tick: any second of the domain that is
\* at most one second behind the previous tick
VolumeTimes == {t \in Times : t + 1000 >= ret.time}

\* one call of VolumeSpikeDetector.update
VolumeUpdate ==
    /\ ret.n < MaxVolumeTicks
    /\ \E symbol \in VolumeSymbols, volume \in Volumes, t \in VolumeTimes :
         LET r == VolumeSpikeDetector_update(aggregators, symbol, volume, t)
         IN  /\ aggregators' = r.aggregators
             /\ ret' = [n |-> ret.n + 1, fn |-> "volume", symbol |-> symbol,
                        price |-> 0, volume |-> volume, time |-> t,
                        pre_len |-> PreLen(aggregators, symbol, "window_volumes"),
                        result |-> r.result,
                        sums |-> BucketSums(ret.sums, aggregators, symbol, volume, t)]
    /\ UNCHANGED <<calculators, history, last_prices>>
    /\ UNCHANGED <<anVars, hubVars, queueVars, logVars, appVars, svcVars>>

\* one call of PriceChangeDetector.update
PriceUpdate ==
    /\ ret.n < MaxPriceTicks
    /\ \E symbol \in Symbols, price \in WhalePrices, t \in PriceTimes :
         LET r == PriceChangeDetector_update(history, WindowSeconds, symbol, price, t)
         IN  /\ history' = r.history
             /\ ret' = [n |-> ret.n + 1, fn |-> "price", symbol |-> symbol,
                        price |-> price, volume |-> 0, time |-> t,
                        pre_len |-> IF symbol \in DOMAIN history THEN Len(history[symbol]) ELSE 0, result |-> r.result]
    /\ UNCHANGED <<calculators, aggregators, last_prices>>
    /\ UNCHANGED <<anVars, hubVars, queueVars, logVars, appVars, svcVars>>

\* prices on, between and beyond the lowest levels of the analyzer
LevelPrices == {67500, 68000, 68500, 69000, 69500, 70500}
MaxLevelTicks == 3

\* one call of LevelCrossDetector.update(symbol, price)
LevelUpdate ==
    /\ ret.n < MaxLevelTicks
    /\ \E symbol \in Symbols, price \in LevelPrices :
         LET r == LevelCrossDetector_update(last_prices, symbol, price)
         IN  /\ last_prices' = r.last_prices
             /\ ret' = [n |-> ret.n + 1, fn |-> "level", symbol |-> symbol,
                        price |-> price, volume |-> 0, time |-> 0,
                        pre_len |-> 0, result |-> r.result,
                        last_price |-> IF symbol \in DOMAIN last_prices
                                       THEN last_prices[symbol] ELSE 0]
    /\ UNCHANGED <<calculators, aggregators, history>>
    /\ UNCHANGED <<anVars, hubVars, queueVars, logVars, appVars, svcVars>>

SpecRSI == Init /\ [][RsiUpdate]_vars
SpecLevel == Init /\ [][LevelUpdate]_vars

\* the engine on one symbol: a baseline price, one 20% above, one 20% below
EngineSymbols == {"BTCUSDT"}
EnginePrices == {8, 10, 12}
EngineVolumes == {1000}
MaxEngineTicks == 31
\* stored prices that may differ from the first one when a tick arrives
MaxOffBaseline == 1

OffBaseline(w) == Cardinality({i \in 1..Len(w) : w[i] # w[1]})

\* one call of IndicatorEngine.update(symbol, price, volume)
EngineUpdate ==
    /\ ret.n < MaxEngineTicks
    /\ \E symbol \in EngineSymbols, price \in EnginePrices, volume \in EngineVolumes :
         /\ symbol \in DOMAIN price_windows =>
                OffBaseline(price_windows[symbol]) <= MaxOffBaseline
         /\ LET r == IndicatorEngine_update(price_windows, volume_windows,
                                            symbol, price, volume)
            IN  /\ price_windows' = r.price_windows
                /\ volume_windows' = r.volume_windows
                /\ ret' = [n |-> ret.n + 1, fn |-> "engine", symbol |-> symbol,
                           price |-> price, volume |-> volume, time |-> 0,
                           pre_len |-> IF symbol \in DOMAIN price_windows
                                       THEN Len(price_windows[symbol]) ELSE 0,
                           result |-> r.result]
    /\ UNCHANGED <<calculators, aggregators, history, last_prices, redis, evloop>>
    /\ UNCHANGED <<anVars, hubVars, queueVars, logVars, appVars>>

SpecEngine == Init /\ [][EngineUpdate]_vars

\* the five detectors side by side, two symbols, prices on both sides of 69000
FramePrices == {68500, 69500}
FrameVolumes == {1}
FrameTimes == {1000, 2000}
MaxFrameTicks == 3

\* the state a detector keeps: its mapping keyed by symbol (two for the engine)
StateOf(d, calcs, aggs, hist, lasts, pw, vw) ==
    CASE d = "rsi" -> calcs
      [] d = "volume" -> aggs
      [] d = "price" -> hist
      [] d = "level" -> lasts
      [] d = "engine" -> [p |-> pw, v |-> vw]

\* the symbols a detector tracks, and what it stores for one of them
Tracked(d, st) == IF d = "engine" THEN DOMAIN st.p ELSE DOMAIN st
Stored(d, st, o) == IF d = "engine" THEN <<st.p[o], st.v[o]>> ELSE st[o]

\* update(symbol, ...) of detector d on the state st
Call(d, st, symbol, price, volume, timestamp_ms) ==
    CASE d = "rsi" ->
           LET r == RSICalculator_update(st, symbol, price, timestamp_ms)
           IN  [state |-> r.calculators, result |-> r.result]
      [] d = "volume" ->
           LET r == VolumeSpikeDetector_update(st, symbol, volume, timestamp_ms)
           IN  [state |-> r.aggregators, result |-> r.result]
      [] d = "price" ->
           LET r == PriceChangeDetector_update(st, WindowSeconds, symbol, price,
                                               timestamp_ms)
           IN  [state |-> r.history, result |-> r.result]
      [] d = "level" ->
           LET r == LevelCrossDetector_update(st, symbol, price)
           IN  [state |-> r.last_prices, result |-> r.result]
      [] d = "engine" ->
           LET r == IndicatorEngine_update(st.p, st.v, symbol, price, volume)
           IN  [state |-> [p |-> r.price_windows, v |-> r.volume_windows],
                result |-> r.result]

\* one call of update on one of the detectors
FrameUpdate ==
    /\ ret.n < MaxFrameTicks
    /\ \E d \in Detectors, symbol \in Symbols, price \in FramePrices,
          volume \in FrameVolumes, t \in FrameTimes :
         LET c == Call(d, StateOf(d, calculators, aggregators, history, last_prices,
                                  price_windows, volume_windows),
                       symbol, price, volume, t)
         IN  /\ calculators' = IF d = "rsi" THEN c.state ELSE calculators
             /\ aggregators' = IF d = "volume" THEN c.state ELSE aggregators
             /\ history' = IF d = "price" THEN c.state ELSE history
             /\ last_prices' = IF d = "level" THEN c.state ELSE last_prices
             /\ price_windows' = IF d = "engine" THEN c.state.p ELSE price_windows
             /\ volume_windows' = IF d = "engine" THEN c.state.v ELSE volume_windows
             /\ ret' = [n |-> ret.n + 1, fn |-> "frame", detector |-> d,
                        symbol |-> symbol, price |-> price, volume |-> volume,
                        time |-> t, pre_len |-> 0, result |-> c.result,
                        seen |-> [ret.seen EXCEPT ![d] = @ \cup {symbol}]]
    /\ UNCHANGED <<redis, evloop>>
    /\ UNCHANGED <<anVars, hubVars, queueVars, logVars, appVars>>

SpecFrame == Init /\ [][FrameUpdate]_vars

(***************************************************************************)
(* state/redis_state.py: the alert deduplication.                          *)
(***************************************************************************)
ALERT_COOLDOWN == 30
\* the breakout directions the processing worker passes
Directions == {"UP", "DOWN"}
\* calls of should_send_alert, and the seconds of the server's clock
MaxAlertCalls == 3
RedisStep == 15
MaxRedisTime == 45

\* key = f"{self.ALERT_PREFIX}{symbol}:{direction}"
AlertKey(symbol, direction) == <<"alert:", symbol, direction>>

\* a key set with ex=... is there until its time to live has passed
KeyExists(key) == key \in DOMAIN redis.keys /\ redis.now < redis.keys[key]

Returned(c, call, value, how) ==
    redis.returned \cup {[caller |-> c, symbol |-> call.symbol,
                          direction |-> call.direction, at |-> redis.now,
                          value |-> value, how |-> how]}

\* RedisStateManager.connect: ping answered, or the client dropped
RedisConnect(c, ok) ==
    /\ redis.client[c] = "new"
    /\ redis' = [redis EXCEPT !.client[c] = IF ok THEN "connected" ELSE "none"]
    /\ UNCHANGED <<price_windows, volume_windows, evloop>>
    /\ UNCHANGED <<indVars, anVars, hubVars, queueVars, logVars, appVars>>

\* should_send_alert up to "await self.client.set(...)"; without a client it
\* returns True at once
ShouldSendAlert(c, symbol, direction) ==
    /\ redis.client[c] # "new"
    /\ redis.inflight[c] = None
    /\ redis.calls < MaxAlertCalls
    /\ LET call == [symbol |-> symbol, direction |-> direction]
       IN  IF redis.client[c] = "none"
           THEN redis' = [redis EXCEPT !.calls = @ + 1,
                                       !.returned = Returned(c, call, TRUE, "no_client")]
           ELSE redis' = [redis EXCEPT !.calls = @ + 1,
                                       !.inflight[c] = Some(call)]
    /\ UNCHANGED <<price_windows, volume_windows, evloop>>
    /\ UNCHANGED <<indVars, anVars, hubVars, queueVars, logVars, appVars>>

\* the server runs SET key "1" EX 30 NX and the call returns was_set is not None
RedisSetNx(c) ==
    /\ redis.inflight[c] # None
    /\ LET call == redis.inflight[c][1]
           key == AlertKey(call.symbol, call.direction)
       IN  IF KeyExists(key)
           THEN redis' = [redis EXCEPT !.inflight[c] = None,
                                       !.returned = Returned(c, call, FALSE, "reply")]
           ELSE redis' = [redis EXCEPT
                             !.inflight[c] = None,
                             !.keys = IF key \in DOMAIN redis.keys
                                      THEN [redis.keys EXCEPT ![key] =
                                               redis.now + ALERT_COOLDOWN]
                                      ELSE redis.keys @@
                                           (key :> redis.now + ALERT_COOLDOWN),
                             !.returned = Returned(c, call, TRUE, "reply")]
    /\ UNCHANGED <<price_windows, volume_windows, evloop>>
    /\ UNCHANGED <<indVars, anVars, hubVars, queueVars, logVars, appVars>>

\* the awaited set raises: "except Exception: return True"
RedisSetRaises(c) ==
    /\ redis.inflight[c] # None
    /\ redis' = [redis EXCEPT !.inflight[c] = None,
                              !.returned = Returned(c, redis.inflight[c][1], TRUE,
                                                    "error")]
    /\ UNCHANGED <<price_windows, volume_windows, evloop>>
    /\ UNCHANGED <<indVars, anVars, hubVars, queueVars, logVars, appVars>>

\* the server's clock
RedisTick ==
    /\ redis.now + RedisStep <= MaxRedisTime
    /\ redis' = [redis EXCEPT !.now = @ + RedisStep]
    /\ UNCHANGED <<price_windows, volume_windows, evloop>>
    /\ UNCHANGED <<indVars, anVars, hubVars, queueVars, logVars, appVars>>

NextRedis ==
    \/ \E c \in Instances, ok \in BOOLEAN : RedisConnect(c, ok)
    \/ \E c \in Instances, symbol \in Symbols, direction \in Directions :
          ShouldSendAlert(c, symbol, direction)
    \/ \E c \in Instances : RedisSetNx(c)
    \/ \E c \in Instances : RedisSetRaises(c)
    \/ RedisTick

SpecRedis == Init /\ [][NextRedis]_vars
SpecVolume == Init /\ [][VolumeUpdate]_vars
SpecPrice == Init /\ [][PriceUpdate]_vars

(***************************************************************************)
(* Claims about the detectors.                                             *)
(***************************************************************************)
\* C3: after PriceChangeDetector.update(symbol, price, t) returns, every entry
\* retained in history[symbol] has a timestamp >= t - window_seconds * 1000,
\* also when the ticks did not arrive in increasing order of timestamp.
C3_WindowHoldsNoExpiredEntry ==
    ret.fn = "price" =>
        \A i \in 1..Len(history[ret.symbol]) :
            history[ret.symbol][i][1] >= ret.time - WindowSeconds * 1000

\* C4: for any tick sequence the deque of closes of every symbol holds at
\* most period + 1 entries.
C4_ClosesAtMostPeriodPlusOne ==
    \A s \in DOMAIN calculators :
        Len(calculators[s].closes) <= calculators[s].period + 1

\* C4 witness: a close was appended to a deque that already held period + 1.
C4_AppendedToFullDeque ==
    /\ ret.fn = "rsi"
    /\ ret.pre_len = Period + 1
    /\ ret.result # None
    /\ Len(calculators[ret.symbol].closes) = Period + 1

\* C5 as claimed: a returned spike_multiplier is >= 0, and is_spike implies
\* that the reported spike_multiplier is strictly above the threshold.
C5_ReportedMultiplierAboveThreshold ==
    (ret.fn = "volume" /\ ret.result # None) =>
        /\ ret.result[1].spike_multiplier >= 0
        /\ ret.result[1].is_spike =>
               ret.result[1].spike_multiplier > 100 * SPIKE_THRESHOLD

\* C5 amended: a returned spike_multiplier is >= 0, and is_spike implies that
\* the average is positive, that the completed volume is more than threshold
\* times the average, and that the reported multiplier (rounded to two
\* decimals) is at least the threshold.
C5_SpikeMultiplierAtLeastThreshold ==
    (ret.fn = "volume" /\ ret.result # None) =>
        LET r == ret.result[1]
        IN  /\ r.spike_multiplier >= 0
            /\ r.is_spike =>
                 /\ r.average_sum > 0
                 /\ r.current_volume * r.average_n > SPIKE_THRESHOLD * r.average_sum
                 /\ r.spike_multiplier >= 100 * SPIKE_THRESHOLD

\* C5 witness: a spike whose reported multiplier is the threshold itself.
C5_SpikeReportedAtThreshold ==
    /\ ret.fn = "volume"
    /\ ret.result # None
    /\ ret.result[1].is_spike
    /\ ret.result[1].spike_multiplier = 100 * SPIKE_THRESHOLD

(***************************************************************************)
(* services/analyzer.py: MarketAnalyzer                                    *)
(***************************************************************************)
\* key = f"{trade.symbol}_{trigger_type}"
CooldownKey(symbol, trigger_type) == <<symbol, trigger_type>>

\* the _maybe_trigger calls _process_trade makes for the detectors' results,
\* in the order of the code
Triggers(rsi_result, volume_result, whale_result, level_result) ==
    (IF rsi_result # None /\ rsi_result[1].is_overbought
       THEN <<[trigger_type |-> "RSI_HIGH", trigger_value |-> rsi_result[1].rsi]>>
     ELSE IF rsi_result # None /\ rsi_result[1].is_oversold
       THEN <<[trigger_type |-> "RSI_LOW", trigger_value |-> rsi_result[1].rsi]>>
     ELSE <<>>)
    \o (IF volume_result # None /\ volume_result[1].is_spike
          THEN <<[trigger_type |-> "VOLUME_SPIKE",
                  trigger_value |-> volume_result[1].spike_multiplier]>>
        ELSE <<>>)
    \o (IF whale_result # None /\ whale_result[1].is_whale_move
          THEN <<[trigger_type |-> "WHALE_ALERT",
                  trigger_value |-> whale_result[1].change_percent]>>
        ELSE <<>>)
    \o (IF level_result # None
          THEN <<[trigger_type |-> "PSYCH_LEVEL",
                  trigger_value |-> level_result[1].level]>>
        ELSE <<>>)

\* MarketAnalyzer._process_trade up to its first _maybe_trigger: the counter,
\* the four detectors, and the triggers to check
ProcessTrade(trade) ==
    LET r == RSICalculator_update(calculators, trade.symbol, trade.price, trade.time)
        v == VolumeSpikeDetector_update(aggregators, trade.symbol, trade.volume,
                                        trade.time)
        w == PriceChangeDetector_update(history, WindowSeconds, trade.symbol,
                                        trade.price, trade.time)
        l == LevelCrossDetector_update(last_prices, trade.symbol, trade.price)
    IN  /\ stats' = [stats EXCEPT !.trades_processed = @ + 1]
        /\ calculators' = r.calculators
        /\ aggregators' = v.aggregators
        /\ history' = w.history
        /\ last_prices' = l.last_prices
        /\ ret' = [n |-> ret.n + 1, fn |-> "process_trade", symbol |-> trade.symbol,
                   price |-> trade.price, volume |-> trade.volume,
                   time |-> trade.time, pre_len |-> 0,
                   result |-> [rsi |-> r.result, volume |-> v.result,
                               whale |-> w.result, level |-> l.result]]
        /\ pending' = [t \in 1..Len(Triggers(r.result, v.result, w.result, l.result)) |->
                         [trade |-> trade,
                          trigger_type |->
                              Triggers(r.result, v.result, w.result, l.result)[t].trigger_type,
                          trigger_value |->
                              Triggers(r.result, v.result, w.result, l.result)[t].trigger_value,
                          stage |-> "cooldown"]]

\* if now - last_time < COOLDOWN_SECONDS: return
InCooldownNever(now, last_time) == FALSE
InCooldown(now, last_time) == now - last_time < COOLDOWN_SECONDS

\* self.cooldowns.get(key, 0)
LastTime(key) == IF key \in DOMAIN cooldowns THEN cooldowns[key] ELSE 0

\* if self.connection_check_callback: has_audience = ...; if not has_audience
GateSkips(wired, has_audience) == wired /\ ~has_audience

\* "if self.on_alert: await self.on_alert(alert)": the calls of the callback
NotifyCallbackNever(on_alert) == 0
NotifyCallback(on_alert) == IF on_alert THEN 1 ELSE 0

\* _maybe_trigger from its start to "await self.on_alert(alert)": the cooldown
\* check, the cooldown entry, the counter, the AlertEvent and the callback
MaybeTriggerFire ==
    /\ pending # <<>>
    /\ pending[1].stage = "cooldown"
    /\ LET p == pending[1]
           key == CooldownKey(p.trade.symbol, p.trigger_type)
           now == clock
       IN  IF InCooldown(now, LastTime(key))
           THEN /\ pending' = Tail(pending)
                /\ outcome' = [NoOutcome EXCEPT !.trigger = Some(p), !.at = now]
                /\ UNCHANGED <<cooldowns, stats, emitted>>
           ELSE /\ cooldowns' = IF key \in DOMAIN cooldowns
                                THEN [cooldowns EXCEPT ![key] = now]
                                ELSE cooldowns @@ (key :> now)
                /\ stats' = [stats EXCEPT !.alerts_triggered = @ + 1]
                /\ emitted' = Append(emitted, [key |-> key, at |-> now])
                /\ outcome' = [NoOutcome EXCEPT !.trigger = Some(p), !.at = now,
                                                !.fired = TRUE,
                                                !.on_alert = callbacks.on_alert,
                                                !.deliveries =
                                                    NotifyCallback(callbacks.on_alert),
                                                !.gate = "pending"]
                /\ pending' = [pending EXCEPT ![1].stage = "gate"]
    /\ UNCHANGED <<callbacks, clock>>
    /\ UNCHANGED <<indVars, hubVars, queueVars, logVars, appVars, svcVars>>

(***************************************************************************)
(* main.py: ConnectionManager and websocket_endpoint                       *)
(***************************************************************************)
\* broadcasts each worker makes
MaxBroadcasts == 1

Range(seq) == {seq[i] : i \in 1..Len(seq)}
Count(seq, x) == Cardinality({i \in 1..Len(seq) : seq[i] = x})

\* list.remove(x): the first occurrence of x removed
RECURSIVE ListRemove(_, _)
ListRemove(list, x) ==
    IF list = <<>> THEN <<>>
    ELSE IF Head(list) = x THEN Tail(list)
    ELSE <<Head(list)>> \o ListRemove(Tail(list), x)

\* ConnectionManager.disconnect: the registry afterwards
DisconnectKeeps(connections, websocket) == connections
Disconnect(connections, websocket) ==
    IF websocket \in Range(connections) THEN ListRemove(connections, websocket)
    ELSE connections

\* the loop "for conn in disconnected: self.disconnect(conn)"
RECURSIVE DisconnectAll(_, _)
DisconnectAll(connections, disconnected) ==
    IF disconnected = <<>> THEN connections
    ELSE DisconnectAll(Disconnect(connections, Head(disconnected)), Tail(disconnected))

\* the broadcasts that are inside their loop note who else removed a subscriber
NoteGone(removed, except) ==
    [w \in Workers |->
        IF w # except /\ bcast[w].pc = "loop"
        THEN [bcast[w] EXCEPT !.gone = @ \cup removed]
        ELSE bcast[w]]

\* websocket_endpoint up to its first receive_text: ConnectionManager.connect
Connect(c) ==
    /\ sockets[c] = "new"
    /\ sockets' = [sockets EXCEPT ![c] = "open"]
    /\ active_connections' = Append(active_connections, c)
    /\ UNCHANGED bcast
    /\ UNCHANGED <<indVars, anVars, queueVars, logVars, appVars, svcVars>>

\* the client stops reading: a send to it is accepted by nobody, the awaited
\* send_json / send_bytes does not return while the client stays like this
ClientStalls(c) ==
    /\ sockets[c] = "open"
    /\ sockets' = [sockets EXCEPT ![c] = "stalled"]
    /\ UNCHANGED <<active_connections, bcast>>
    /\ UNCHANGED <<indVars, anVars, queueVars, logVars, appVars, svcVars>>

\* the client goes away: sends to it raise from now on, and receive_text will
\* raise WebSocketDisconnect in its endpoint
ClientClose(c) ==
    /\ sockets[c] \in {"open", "stalled"}
    /\ sockets' = [sockets EXCEPT ![c] = "closed"]
    /\ UNCHANGED <<active_connections, bcast>>
    /\ UNCHANGED <<indVars, anVars, queueVars, logVars, appVars, svcVars>>

\* websocket_endpoint: except WebSocketDisconnect: manager.disconnect(websocket)
EndpointDisconnect(c) ==
    /\ sockets[c] = "closed"
    /\ sockets' = [sockets EXCEPT ![c] = "ended"]
    /\ active_connections' = Disconnect(active_connections, c)
    /\ bcast' = NoteGone(IF c \in Range(active_connections) THEN {c} ELSE {}, "")
    /\ UNCHANGED <<indVars, anVars, queueVars, logVars, appVars, svcVars>>

\* connection.send_json / send_bytes raises on a socket whose client is gone
SendRaises(c) == sockets[c] \notin {"open", "stalled"}

\* await connection.send_json(data) returns (or raises) only when the
\* transport took the message
SendReturns(c) == sockets[c] # "stalled"

\* broadcast_json / broadcast_bytes: disconnected = [] and the iterator created
BroadcastStart(w, kind) ==
    /\ bcast[w].pc = "idle"
    /\ bcast[w].runs < MaxBroadcasts
    /\ bcast' = [bcast EXCEPT ![w] =
                    [pc |-> "loop", kind |-> kind, it |-> 0, disconnected |-> <<>>,
                     attempts |-> <<>>, start |-> active_connections,
                     gone |-> {}, after |-> <<>>, runs |-> bcast[w].runs + 1]]
    /\ UNCHANGED <<active_connections, sockets>>
    /\ UNCHANGED <<indVars, anVars, queueVars, logVars, appVars, svcVars>>

\* one iteration of "for connection in self.active_connections": the list
\* iterator yields the element at its index in the list as it is now, and
\* the awaited send lets the other tasks run before the next iteration
BroadcastSend(w) ==
    /\ bcast[w].pc = "loop"
    /\ bcast[w].it < Len(active_connections)
    /\ SendReturns(active_connections[bcast[w].it + 1])
    /\ LET connection == active_connections[bcast[w].it + 1]
       IN  bcast' = [bcast EXCEPT
                        ![w].it = @ + 1,
                        ![w].attempts = Append(@, connection),
                        ![w].disconnected = IF SendRaises(connection)
                                            THEN Append(@, connection) ELSE @]
    /\ UNCHANGED <<active_connections, sockets>>
    /\ UNCHANGED <<indVars, anVars, queueVars, logVars, appVars, svcVars>>

\* the iterator is exhausted: the dead connections are cleaned up and the
\* broadcast returns
BroadcastCleanup(w) ==
    /\ bcast[w].pc = "loop"
    /\ bcast[w].it >= Len(active_connections)
    /\ active_connections' = DisconnectAll(active_connections, bcast[w].disconnected)
    /\ bcast' = [NoteGone(Range(bcast[w].disconnected) \cap Range(active_connections), w)
                    EXCEPT ![w].pc = "done", ![w].after = active_connections']
    /\ UNCHANGED sockets
    /\ UNCHANGED <<indVars, anVars, queueVars, logVars, appVars, svcVars>>

\* the worker goes on after the broadcast
BroadcastReturn(w) ==
    /\ bcast[w].pc = "done"
    /\ bcast' = [bcast EXCEPT ![w] = [IdleBroadcast EXCEPT !.runs = bcast[w].runs]]
    /\ UNCHANGED <<active_connections, sockets>>
    /\ UNCHANGED <<indVars, anVars, queueVars, logVars, appVars, svcVars>>

\* processing_worker calls broadcast_json; intelligence_worker calls
\* broadcast_json and broadcast_bytes
Kinds(w) == IF w = "processing" THEN {"json"} ELSE {"json", "bytes"}

NextHub ==
    \/ \E c \in Conns : Connect(c)
    \/ \E c \in Conns : ClientStalls(c)
    \/ \E c \in Conns : ClientClose(c)
    \/ \E c \in Conns : EndpointDisconnect(c)
    \/ \E w \in Workers : \E kind \in Kinds(w) : BroadcastStart(w, kind)
    \/ \E w \in Workers : BroadcastSend(w)
    \/ \E w \in Workers : BroadcastCleanup(w)
    \/ \E w \in Workers : BroadcastReturn(w)

SpecHub == Init /\ [][NextHub]_vars

(***************************************************************************)
(* The analyzer at work: trades consumed one after the other, the wall     *)
(* clock, the callbacks main wires, and one client that comes and goes.    *)
(***************************************************************************)
\* trades the analyzer consumes: on its own, and with callbacks and a client
MaxTrades == 4
MaxGatedTrades == 2
\* readings of the wall clock: 10 seconds and a whole cooldown after the
\* first one, and 10 seconds after that
ClockReadings == {COOLDOWN_SECONDS, COOLDOWN_SECONDS + 10,
                  2 * COOLDOWN_SECONDS, 2 * COOLDOWN_SECONDS + 10}

\* the audience gate main wires into connection_check_callback
HasAudience == Len(active_connections) > 0

\* a gate that gives the cooldown entry back when the analysis is skipped or
\* the Gemini call fails
MaybeTriggerGateForgets ==
    /\ pending # <<>>
    /\ pending[1].stage = "gate"
    /\ pending' = Tail(pending)
    /\ LET key == CooldownKey(pending[1].trade.symbol, pending[1].trigger_type)
       IN  IF GateSkips(callbacks.connection_check_callback, HasAudience)
           THEN /\ stats' = [stats EXCEPT !.alerts_skipped = @ + 1]
                /\ outcome' = [outcome EXCEPT !.gate = "skipped",
                                              !.audience = Len(active_connections)]
                /\ cooldowns' = [cooldowns EXCEPT ![key] = 0]
           ELSE /\ \E generated \in BOOLEAN :
                     /\ outcome' = [outcome EXCEPT
                                      !.gate = "passed",
                                      !.audience = Len(active_connections),
                                      !.llm = IF generated THEN "text" ELSE "error",
                                      !.on_analysis = generated /\ callbacks.on_analysis]
                     /\ cooldowns' = IF generated THEN cooldowns
                                     ELSE [cooldowns EXCEPT ![key] = 0]
                /\ UNCHANGED stats
    /\ UNCHANGED <<callbacks, clock, emitted>>
    /\ UNCHANGED <<indVars, hubVars, queueVars, logVars, appVars, svcVars>>

\* _maybe_trigger from the audience gate on, with _generate_ai_analysis: the
\* gate, the skip counter, the Gemini call (it returns a text or raises) and
\* the on_analysis callback
MaybeTriggerGate ==
    /\ pending # <<>>
    /\ pending[1].stage = "gate"
    /\ pending' = Tail(pending)
    /\ IF GateSkips(callbacks.connection_check_callback, HasAudience)
       THEN /\ stats' = [stats EXCEPT !.alerts_skipped = @ + 1]
            /\ outcome' = [outcome EXCEPT !.gate = "skipped",
                                          !.audience = Len(active_connections)]
       ELSE /\ \E generated \in BOOLEAN :
                 outcome' = [outcome EXCEPT
                               !.gate = "passed",
                               !.audience = Len(active_connections),
                               !.llm = IF generated THEN "text" ELSE "error",
                               !.on_analysis = generated /\ callbacks.on_analysis]
            /\ UNCHANGED stats
    /\ UNCHANGED <<cooldowns, callbacks, clock, emitted>>
    /\ UNCHANGED <<indVars, hubVars, queueVars, logVars, appVars, svcVars>>

\* prices around the 68000 level; 67900 -> 69000 is a move of more than 1%
AnalyzerPrices == {67900, 69000}
AnalyzerVolumes == {1000}
\* the feed's event time: a trade is in the second of the one before it or
\* in the next second
NextTimes == IF ret.fn = "process_trade"
             THEN {ret.time, ret.time + 1000} \cap Times
             ELSE {1000}

\* MarketAnalyzer.start: one message polled and handed to _process_trade
AnalyzerConsume(limit) ==
    /\ pending = <<>>
    /\ plog.consumer = "running"
    /\ stats.trades_processed < limit
    /\ \E symbol \in Symbols, price \in AnalyzerPrices, volume \in AnalyzerVolumes,
          t \in NextTimes :
         ProcessTrade([symbol |-> symbol, price |-> price, volume |-> volume,
                       time |-> t])
    /\ UNCHANGED <<cooldowns, callbacks, clock, emitted, outcome>>
    /\ UNCHANGED <<hubVars, queueVars, logVars, appVars, svcVars>>

\* time.time() moves on to a later reading
ClockAdvance ==
    /\ \E now \in ClockReadings :
         /\ now > clock
         /\ clock' = now
    /\ UNCHANGED <<cooldowns, stats, callbacks, emitted, outcome, pending>>
    /\ UNCHANGED <<indVars, hubVars, queueVars, logVars, appVars, svcVars>>

\* main assigns a callback field of the analyzer before it starts it
SetCallback(field) ==
    /\ stats.trades_processed = 0
    /\ ~callbacks[field]
    /\ callbacks' = [callbacks EXCEPT ![field] = TRUE]
    /\ UNCHANGED <<cooldowns, stats, clock, emitted, outcome, pending>>
    /\ UNCHANGED <<indVars, hubVars, queueVars, logVars, appVars, svcVars>>

\* the client whose connection is the analyzer's audience
AudienceConns == {"ws1"}

\* the analyzer as constructed: no callback wired
NextAnalyzer ==
    \/ AnalyzerConsume(MaxTrades)
    \/ MaybeTriggerFire
    \/ MaybeTriggerGate
    \/ ClockAdvance

SpecAnalyzer == Init /\ [][NextAnalyzer]_vars

\* the analyzer with the callbacks main may wire and a client of the hub
NextAudience ==
    \/ AnalyzerConsume(MaxGatedTrades)
    \/ MaybeTriggerFire
    \/ MaybeTriggerGate
    \/ ClockAdvance
    \/ \E field \in DOMAIN callbacks : SetCallback(field)
    \/ \E c \in AudienceConns : Connect(c)
    \/ \E c \in AudienceConns : ClientClose(c)
    \/ \E c \in AudienceConns : EndpointDisconnect(c)

SpecAudience == Init /\ [][NextAudience]_vars

(***************************************************************************)
(* main.py and ingestors/: the bounded queues, their producers and workers *)
(***************************************************************************)
\* asyncio.Queue(maxsize=...): main.py passes 1000 and 10
TickQueueMaxsize == 2
AlertQueueMaxsize == 1
\* ticks that arrive from the feeds: with the queues on their own, and next
\* to the trade log
MaxSends == 4
MaxPipelineSends == 3

\* the sources of ticks: the three ingestors and mock_tick_generator
Producers == {"kite", "finage", "yahoo", "mock"}

\* asyncio.Queue.put_nowait: QueueFull is raised when the queue holds maxsize
\* items, and the item is appended otherwise
put_nowait_unbounded(queue, maxsize, item) ==
    [queue |-> Append(queue, item), raised |-> FALSE]
put_nowait(queue, maxsize, item) ==
    IF Len(queue) >= maxsize
    THEN [queue |-> queue, raised |-> TRUE]
    ELSE [queue |-> Append(queue, item), raised |-> FALSE]

\* except asyncio.QueueFull: the Kite ingestor prints a warning, the others
\* pass
ReportsDrop(producer) == producer = "kite"

\* a tick parsed by an ingestor (or made by mock_tick_generator) and sent to
\* tick_queue; n is its position among the ticks that arrived
TickArrives(producer, limit) ==
    /\ qlog.sends < limit
    /\ \E symbol \in Symbols :
         LET tick == [symbol |-> symbol, n |-> qlog.sends + 1]
             r == put_nowait(tick_queue, TickQueueMaxsize, tick)
         IN  /\ tick_queue' = r.queue
             /\ qlog' = [qlog EXCEPT
                    !.sends = @ + 1,
                    !.rejected.tick = IF r.raised THEN @ + 1 ELSE @,
                    !.drop_log = IF r.raised /\ ReportsDrop(producer) THEN @ + 1 ELSE @,
                    !.last = [queue |-> "tick", raised |-> r.raised,
                              before |-> tick_queue, after |-> r.queue]]
    /\ UNCHANGED alert_queue
    /\ UNCHANGED <<indVars, anVars, hubVars, logVars, appVars, svcVars>>

\* processing_worker, one iteration: tick_queue.get(), the indicators, the
\* broadcast (the registry is empty here) and, on a breakout that is not a
\* duplicate, the alert sent to alert_queue
ProcessingWorkerStep ==
    /\ tick_queue # <<>>
    /\ active_connections = <<>>
    /\ tick_queue' = Tail(tick_queue)
    /\ \E breakout \in BOOLEAN :
         IF breakout
         THEN LET r == put_nowait(alert_queue, AlertQueueMaxsize, Head(tick_queue))
              IN  /\ alert_queue' = r.queue
                  /\ qlog' = [qlog EXCEPT
                         !.taken = Append(@, Head(tick_queue)),
                         !.rejected.alert = IF r.raised THEN @ + 1 ELSE @,
                         !.drop_log = IF r.raised THEN @ + 1 ELSE @,
                         !.last = [queue |-> "alert", raised |-> r.raised,
                                   before |-> alert_queue, after |-> r.queue]]
         ELSE /\ qlog' = [qlog EXCEPT !.taken = Append(@, Head(tick_queue))]
              /\ UNCHANGED alert_queue
    /\ UNCHANGED <<indVars, anVars, hubVars, logVars, appVars, svcVars>>

\* GeminiLiveClient.generate: the response text, or the error as a text when
\* generate_content raises
GeminiGenerate(ok) == IF ok THEN "text" ELSE "Analysis unavailable"

\* intelligence_worker, one iteration: alert_queue.get(), gemini.generate
\* and manager.broadcast_json of the "analysis" message (the registry is
\* empty here)
IntelligenceWorkerStep ==
    /\ alert_queue # <<>>
    /\ active_connections = <<>>
    /\ alert_queue' = Tail(alert_queue)
    /\ \E ok \in BOOLEAN :
         qlog' = [qlog EXCEPT
                    !.generate_calls = @ + 1,
                    !.analysis = [llm |-> IF ok THEN "ok" ELSE "failed",
                                  text |-> GeminiGenerate(ok),
                                  broadcast |-> TRUE]]
    /\ UNCHANGED tick_queue
    /\ UNCHANGED <<indVars, anVars, hubVars, logVars, appVars, svcVars>>

NextQueue ==
    \/ \E producer \in Producers : TickArrives(producer, MaxSends)
    \/ ProcessingWorkerStep
    \/ IntelligenceWorkerStep

SpecQueue == Init /\ [][NextQueue]_vars

(***************************************************************************)
(* services/ingestor.py, the crypto-trades topic, MarketAnalyzer.start     *)
(***************************************************************************)
\* trades the ingestor produces
MaxProduced == 3

\* the partitioner: the partition of a key is a function of the key.  The
\* first message of a key may land in any partition, the later ones follow.
PartitionAny(assigned, key, choice) == choice
PartitionFor(assigned, key, choice) ==
    IF key \in DOMAIN assigned THEN assigned[key] ELSE choice

PipelinePrices == {67900, 69000}

\* BinanceIngestor._process_message: the trade parsed and produced with
\* key = trade.symbol; n is its position among the trades produced
ProcessMessage(limit) ==
    /\ plog.produced < limit
    /\ \E symbol \in Symbols, price \in PipelinePrices, choice \in Partitions :
         LET n == plog.produced + 1
             trade == [symbol |-> symbol, price |-> price, volume |-> 1000,
                       time |-> 1000 * n]
             p == PartitionFor(plog.assigned, symbol, choice)
         IN  /\ partitions' = [partitions EXCEPT
                                  ![p] = Append(@, [trade |-> trade, n |-> n])]
             /\ plog' = [plog EXCEPT
                           !.produced = n,
                           !.assigned = IF symbol \in DOMAIN @ THEN @
                                        ELSE @ @@ (symbol :> p)]

\* a well-formed trade message handled by the ingestor
IngestorProduce ==
    /\ ProcessMessage(MaxProduced)
    /\ UNCHANGED <<offsets, ingestors>>
    /\ UNCHANGED <<indVars, anVars, hubVars, queueVars, appVars, svcVars>>

\* MarketAnalyzer.start, one iteration: consumer.poll returns the next message
\* of one of the partitions, and the trade goes to _process_trade
AnalyzerPoll ==
    /\ pending = <<>>
    /\ plog.consumer = "running"
    /\ \E p \in Partitions :
         /\ offsets[p] < Len(partitions[p])
         /\ LET msg == partitions[p][offsets[p] + 1]
            IN  /\ offsets' = [offsets EXCEPT ![p] = @ + 1]
                /\ ProcessTrade(msg.trade)
                /\ plog' = [plog EXCEPT
                              !.processed = Append(@, [symbol |-> msg.trade.symbol,
                                                       n |-> msg.n])]
    /\ UNCHANGED <<partitions, ingestors>>
    /\ UNCHANGED <<cooldowns, callbacks, clock, emitted, outcome>>
    /\ UNCHANGED <<hubVars, queueVars, appVars, svcVars>>

\* the feed next to the trade log
PipelineProducers == {"mock"}

\* the ingestor, the log and the analyzer, and next to them a feed, the tick
\* queue and the two workers
NextPipeline ==
    \/ IngestorProduce
    \/ AnalyzerPoll
    \/ MaybeTriggerFire
    \/ MaybeTriggerGate
    \/ \E producer \in PipelineProducers : TickArrives(producer, MaxPipelineSends)
    \/ ProcessingWorkerStep
    \/ IntelligenceWorkerStep

SpecPipeline == Init /\ [][NextPipeline]_vars

(***************************************************************************)
(* Claims about the analyzer.                                              *)
(***************************************************************************)
\* the positions in emitted of the AlertEvents of one cooldown key
AlertsOf(key) == {i \in 1..Len(emitted) : emitted[i].key = key}

\* C1: two consecutive AlertEvents of one (symbol, trigger) pair are at least
\* COOLDOWN_SECONDS of wall-clock time apart, and a detection gives no
\* AlertEvent only when an AlertEvent of its pair is less than
\* COOLDOWN_SECONDS old: two detections 10 s apart give exactly one.
C1_AlertsOfAPairACooldownApart ==
    /\ \A i, j \in 1..Len(emitted) :
           (/\ i < j
            /\ emitted[i].key = emitted[j].key
            /\ \A k \in (i + 1)..(j - 1) : emitted[k].key # emitted[i].key)
           => emitted[j].at - emitted[i].at >= COOLDOWN_SECONDS
    /\ (outcome.trigger # None /\ ~outcome.fired) =>
           \E i \in AlertsOf(CooldownKey(outcome.trigger[1].trade.symbol,
                                         outcome.trigger[1].trigger_type)) :
               /\ outcome.at - emitted[i].at >= 0
               /\ outcome.at - emitted[i].at < COOLDOWN_SECONDS

\* C1 witness: RSI_HIGH detected again 10 s after its AlertEvent, and the pair
\* has that one AlertEvent only.
C1_SecondRsiHighTenSecondsLater ==
    /\ outcome.trigger # None
    /\ ~outcome.fired
    /\ outcome.trigger[1].trigger_type = "RSI_HIGH"
    /\ LET key == CooldownKey(outcome.trigger[1].trade.symbol, "RSI_HIGH")
       IN  /\ Cardinality(AlertsOf(key)) = 1
           /\ \A i \in AlertsOf(key) : outcome.at - emitted[i].at = 10

\* C2 as claimed: an alert that fired and reached the audience gate while no
\* subscriber was connected got no LLM call and was counted as skipped,
\* whatever callbacks are wired.
C2_NoAudienceNoLlmCall ==
    (outcome.fired /\ outcome.gate \in {"skipped", "passed"} /\ outcome.audience = 0)
        => (outcome.llm = "none" /\ outcome.gate = "skipped"
            /\ stats.alerts_skipped > 0)

(***************************************************************************)
(* Claims about the connection manager.                                    *)
(***************************************************************************)
\* the subscribers whose send raised, and those whose send succeeded, in the
\* broadcast of worker w
Raised(w) == Range(bcast[w].disconnected)
Succeeded(w) == Range(bcast[w].attempts) \ Range(bcast[w].disconnected)

\* C9 as claimed: when a broadcast has returned, every subscriber whose send
\* raised is out of the registry and every subscriber whose send succeeded
\* is in it; disconnect of a subscriber that is not registered changes
\* nothing.
C9_SucceededStillRegistered ==
    /\ \A w \in Workers : bcast[w].pc = "done" =>
           /\ Raised(w) \cap Range(bcast[w].after) = {}
           /\ Succeeded(w) \subseteq Range(bcast[w].after)
    /\ \A c \in Conns \ Range(active_connections) :
           Disconnect(active_connections, c) = active_connections

\* C9 amended: when a broadcast has returned, every subscriber whose send
\* raised is out of the registry, and every subscriber whose send succeeded
\* is in it unless its endpoint handler or another broadcast removed it
\* while this broadcast was running; disconnect of a subscriber that is not
\* registered changes nothing.
C9_SucceededRegisteredUnlessRemovedByOthers ==
    /\ \A w \in Workers : bcast[w].pc = "done" =>
           /\ Raised(w) \cap Range(bcast[w].after) = {}
           /\ \A c \in Succeeded(w) :
                  c \in Range(bcast[w].after) \/ c \in bcast[w].gone
    /\ \A c \in Conns \ Range(active_connections) :
           Disconnect(active_connections, c) = active_connections

\* C9 witness: a broadcast has returned after one send raised and one
\* succeeded; the first subscriber is evicted, the second is registered.
C9_OneEvictedOneKept ==
    \E w \in Workers :
        /\ bcast[w].pc = "done"
        /\ \E c \in Raised(w) : c \in Range(bcast[w].start) \ bcast[w].gone
        /\ \E c \in Succeeded(w) : c \in Range(bcast[w].after)

\* C10 as claimed: a broadcast that has returned made exactly one send to
\* every subscriber that was registered when it began and that nobody else
\* removed while it ran.
C10_EveryRemainingSubscriberAttemptedOnce ==
    \A w \in Workers : bcast[w].pc = "done" =>
        \A c \in Range(bcast[w].start) \ bcast[w].gone :
            Count(bcast[w].attempts, c) = 1

(***************************************************************************)
(* Claims about the queues and the trade log.                              *)
(***************************************************************************)
\* the maxsize of the queue of a recorded put_nowait
MaxsizeOf(queue) == IF queue = "tick" THEN TickQueueMaxsize ELSE AlertQueueMaxsize

\* C6: the trades of one symbol reach _process_trade in the order in which
\* the ingestor produced them, however the symbols interleave, and the ticks
\* of one symbol leave tick_queue in the order in which they were enqueued.
C6_PerSymbolOrderKept ==
    /\ \A i, j \in 1..Len(plog.processed) :
           (i < j /\ plog.processed[i].symbol = plog.processed[j].symbol)
           => plog.processed[i].n < plog.processed[j].n
    /\ \A i, j \in 1..Len(qlog.taken) :
           (i < j /\ qlog.taken[i].symbol = qlog.taken[j].symbol)
           => qlog.taken[i].n < qlog.taken[j].n

\* C6 witness: two trades of one symbol were processed, a trade of another
\* symbol overtook an earlier one, and two ticks of one symbol left the
\* queue after a tick was dropped.
C6_SymbolsInterleavedAndOrdered ==
    /\ \E i, j \in 1..Len(plog.processed) :
           i < j /\ plog.processed[i].symbol = plog.processed[j].symbol
    /\ \E i, j \in 1..Len(plog.processed) :
           i < j /\ plog.processed[i].n > plog.processed[j].n
    /\ \E i, j \in 1..Len(qlog.taken) :
           i < j /\ qlog.taken[i].symbol = qlog.taken[j].symbol
    /\ qlog.rejected.tick > 0

\* C7: a send to tick_queue or alert_queue never blocks its producer (the
\* producer's step can be taken whatever the queue holds); a send to a queue
\* that holds maxsize items is rejected and leaves the queue as it was, any
\* other send appends the item; no queue ever holds more than maxsize items.
C7_SendNeverBlocksNorOverfills ==
    /\ Len(tick_queue) <= TickQueueMaxsize
    /\ Len(alert_queue) <= AlertQueueMaxsize
    /\ qlog.last.queue # "none" =>
           /\ Len(qlog.last.before) >= MaxsizeOf(qlog.last.queue) =>
                  (qlog.last.raised /\ qlog.last.after = qlog.last.before)
           /\ Len(qlog.last.before) < MaxsizeOf(qlog.last.queue) =>
                  (/\ ~qlog.last.raised
                   /\ Len(qlog.last.after) = Len(qlog.last.before) + 1
                   /\ SubSeq(qlog.last.after, 1, Len(qlog.last.before))
                          = qlog.last.before)
    /\ qlog.sends < MaxSends =>
           \A producer \in Producers : ENABLED TickArrives(producer, MaxSends)
    /\ tick_queue # <<>> => ENABLED ProcessingWorkerStep

\* C7 witness: an alert was just rejected by the full alert_queue, and a tick
\* was rejected by the full tick_queue before.
C7_BothQueuesRejectedASend ==
    /\ qlog.last.queue = "alert"
    /\ qlog.last.raised
    /\ Len(qlog.last.before) = AlertQueueMaxsize
    /\ qlog.rejected.tick > 0

\* C8 as claimed: every rejected send is recorded, the count of recorded
\* drops equals the number of sends rejected so far.
C8_EveryDropCounted ==
    qlog.drop_log = qlog.rejected.tick + qlog.rejected.alert

(***************************************************************************)
(* Claims about slow subscribers, failures and shutdown.                   *)
(***************************************************************************)
\* C11 as claimed: a broadcast never waits on a subscriber: a broadcast that
\* is in its loop can always take its next step (the next send, or the
\* cleanup when the list is exhausted), so the other subscribers get the
\* message and the worker that broadcasts returns to its queue.
C11_BroadcastNeverWaits ==
    \A w \in Workers :
        bcast[w].pc = "loop" => ENABLED (BroadcastSend(w) \/ BroadcastCleanup(w))

(***************************************************************************)
(* services/ingestor.py and ingestors/finage.py: the reconnect loops       *)
(***************************************************************************)
\* connection attempts of each feed
MaxBinanceAttempts == 2
\* trades the Binance feed delivers
MaxBinanceTrades == 1
MaxFinageAttempts == 8
\* ticks the Finage feed delivers
MaxFinageSends == 1

\* await asyncio.sleep(5)
RECONNECT_SECONDS == 5
\* max_delay = 60
MAX_DELAY == 60

MaxKiteAttempts == 8
\* ticks the Kite feed delivers
MaxKiteSends == 1

MaxAttempts(i) ==
    CASE i = "binance" -> MaxBinanceAttempts
      [] i = "finage" -> MaxFinageAttempts
      [] i = "kite" -> MaxKiteAttempts

\* "while self.running:" / "while self._running:"
ShouldLoopAlways(ing) == TRUE
ShouldLoop(ing) == ing.running

\* a receive loop that never looks at the flag
KeepsReadingAlways(i, ing) == TRUE

\* the receive loop: "while self.running:" in BinanceIngestor, "async for
\* message in ws:" (no flag) in FinageIngestor
KeepsReading(i, ing) == i # "binance" \/ ing.running

\* the sleep before the reconnect: 5 seconds in BinanceIngestor, the local
\* reconnect_delay in FinageIngestor
SleepSeconds(i, ing) == IF i = "binance" THEN RECONNECT_SECONDS ELSE ing.reconnect_delay

\* BinanceIngestor.start up to its loop (self.running = True), and
\* FinageIngestor.connect up to its loop (reconnect_delay = 1)
FeedStart(i) ==
    /\ ingestors[i].pc = "init"
    /\ ingestors' = [ingestors EXCEPT
                       ![i].running = IF i = "binance" THEN TRUE ELSE @,
                       ![i].reconnect_delay = 1,
                       ![i].pc = "check"]
    /\ UNCHANGED <<partitions, offsets, plog>>
    /\ UNCHANGED <<indVars, anVars, hubVars, queueVars, appVars, svcVars>>

\* the loop condition of start / connect: a new connection attempt, or the
\* coroutine returns
FeedLoop(i) ==
    /\ ingestors[i].pc = "check"
    /\ IF ShouldLoop(ingestors[i])
       THEN /\ ingestors[i].attempts < MaxAttempts(i)
            /\ ingestors' = [ingestors EXCEPT ![i].pc = "connecting",
                                              ![i].attempts = @ + 1]
       ELSE ingestors' = [ingestors EXCEPT ![i].pc = "returned"]
    /\ UNCHANGED <<partitions, offsets, plog>>
    /\ UNCHANGED <<indVars, anVars, hubVars, queueVars, appVars, svcVars>>

\* a successful connection that leaves reconnect_delay as it was
FeedConnectKeepsDelay(i, ok) ==
    /\ ingestors[i].pc = "connecting"
    /\ ingestors' = IF ok
                    THEN [ingestors EXCEPT ![i].pc = "streaming", ![i].failures = 0]
                    ELSE [ingestors EXCEPT ![i].pc = "failed", ![i].failures = @ + 1]
    /\ UNCHANGED <<partitions, offsets, plog>>
    /\ UNCHANGED <<indVars, anVars, hubVars, queueVars, appVars, svcVars>>

\* websockets.connect succeeds (FinageIngestor and KiteTickerIngestor reset
\* the reconnect delay) or raises
FeedConnect(i, ok) ==
    /\ ingestors[i].pc = "connecting"
    /\ ingestors' = IF ok
                    THEN [ingestors EXCEPT
                            ![i].pc = "streaming", ![i].failures = 0,
                            ![i].reconnect_delay = IF i # "binance" THEN 1 ELSE @]
                    ELSE [ingestors EXCEPT ![i].pc = "failed", ![i].failures = @ + 1]
    /\ UNCHANGED <<partitions, offsets, plog>>
    /\ UNCHANGED <<indVars, anVars, hubVars, queueVars, appVars, svcVars>>

\* the top of the receive loop: on to the next read, or out of the
\* connection and back to the loop condition
FeedNextRead(i) ==
    /\ ingestors[i].pc = "streaming"
    /\ ingestors' = [ingestors EXCEPT
                       ![i].pc = IF KeepsReading(i, ingestors[i]) THEN "reading"
                                 ELSE "check"]
    /\ UNCHANGED <<partitions, offsets, plog>>
    /\ UNCHANGED <<indVars, anVars, hubVars, queueVars, appVars, svcVars>>

\* BinanceIngestor: a well-formed trade message is read and goes through
\* _process_message
BinanceTrade ==
    /\ ingestors["binance"].pc = "reading"
    /\ ProcessMessage(MaxBinanceTrades)
    /\ ingestors' = [ingestors EXCEPT !["binance"].pc = "streaming",
                                      !["binance"].message_count = @ + 1]
    /\ UNCHANGED offsets
    /\ UNCHANGED <<indVars, anVars, hubVars, queueVars, appVars, svcVars>>

\* BinanceIngestor: a message that is not JSON, or lacks s, p, q or T, is
\* read: json.loads or TradeEvent.from_binance raises inside
\* _process_message, the receive loop catches asyncio.TimeoutError only, and
\* the exception leaves the connection and reaches start's handler
BinanceMalformed ==
    /\ ingestors["binance"].pc = "reading"
    /\ ingestors' = [ingestors EXCEPT !["binance"].pc = "failed",
                                      !["binance"].failures = @ + 1]
    /\ UNCHANGED <<partitions, offsets, plog>>
    /\ UNCHANGED <<indVars, anVars, hubVars, queueVars, appVars, svcVars>>

\* BinanceIngestor: no message within 30 seconds, a ping is sent; a ping that
\* raises leaves the connection and reaches start's handler
BinanceTimeout(ping_ok) ==
    /\ ingestors["binance"].pc = "reading"
    /\ ingestors' = IF ping_ok
                    THEN [ingestors EXCEPT !["binance"].pc = "streaming"]
                    ELSE [ingestors EXCEPT !["binance"].pc = "failed",
                                           !["binance"].failures = @ + 1]
    /\ UNCHANGED <<partitions, offsets, plog>>
    /\ UNCHANGED <<indVars, anVars, hubVars, queueVars, appVars, svcVars>>

\* FinageIngestor: a message is read; a tick goes to tick_queue, a message
\* that is not JSON is passed over (except json.JSONDecodeError: pass)
FinageMessage(wellformed) ==
    /\ ingestors["finage"].pc = "reading"
    /\ ingestors' = [ingestors EXCEPT
                       !["finage"].pc = "streaming"]
    /\ IF wellformed
       THEN \E symbol \in Symbols :
              LET tick == [symbol |-> symbol, n |-> qlog.sends + 1]
                  r == put_nowait(tick_queue, TickQueueMaxsize, tick)
              IN  /\ qlog.sends < MaxFinageSends
                  /\ tick_queue' = r.queue
                  /\ qlog' = [qlog EXCEPT
                         !.sends = @ + 1,
                         !.rejected.tick = IF r.raised THEN @ + 1 ELSE @,
                         !.last = [queue |-> "tick", raised |-> r.raised,
                                   before |-> tick_queue, after |-> r.queue]]
       ELSE UNCHANGED <<tick_queue, qlog>>
    /\ UNCHANGED alert_queue
    /\ UNCHANGED <<partitions, offsets, plog>>
    /\ UNCHANGED <<indVars, anVars, hubVars, appVars, svcVars>>

\* KiteTickerIngestor._handle_messages: a binary packet is parsed and put on
\* tick_queue; a text message or a packet that does not parse is passed over
KiteMessage(wellformed) ==
    /\ ingestors["kite"].pc = "reading"
    /\ ingestors' = [ingestors EXCEPT
                       !["kite"].pc = "streaming"]
    /\ IF wellformed
       THEN \E symbol \in Symbols :
              LET tick == [symbol |-> symbol, n |-> qlog.sends + 1]
                  r == put_nowait(tick_queue, TickQueueMaxsize, tick)
              IN  /\ qlog.sends < MaxKiteSends
                  /\ tick_queue' = r.queue
                  /\ qlog' = [qlog EXCEPT
                         !.sends = @ + 1,
                         !.rejected.tick = IF r.raised THEN @ + 1 ELSE @,
                         !.last = [queue |-> "tick", raised |-> r.raised,
                                   before |-> tick_queue, after |-> r.queue]]
       ELSE UNCHANGED <<tick_queue, qlog>>
    /\ UNCHANGED alert_queue
    /\ UNCHANGED <<partitions, offsets, plog>>
    /\ UNCHANGED <<indVars, anVars, hubVars, appVars, svcVars>>

\* the connection is lost while the feed waits for a message
FeedConnectionLost(i) ==
    /\ ingestors[i].pc = "reading"
    /\ ingestors' = [ingestors EXCEPT ![i].pc = "failed", ![i].failures = @ + 1]
    /\ UNCHANGED <<partitions, offsets, plog>>
    /\ UNCHANGED <<indVars, anVars, hubVars, queueVars, appVars, svcVars>>

\* after a failed cycle the coroutine returns instead of going round its loop
FeedAfterFailureGivesUp(i) ==
    /\ ingestors[i].pc = "failed"
    /\ ingestors' = [ingestors EXCEPT ![i].pc = "returned"]
    /\ UNCHANGED <<partitions, offsets, plog>>
    /\ UNCHANGED <<indVars, anVars, hubVars, queueVars, appVars, svcVars>>

\* after a failed cycle: "if self.running: await asyncio.sleep(...)"
FeedAfterFailure(i) ==
    /\ ingestors[i].pc = "failed"
    /\ ingestors' = IF ingestors[i].running
                    THEN [ingestors EXCEPT
                            ![i].pc = "sleeping",
                            ![i].slept = Some([k |-> ingestors[i].failures,
                                               seconds |-> SleepSeconds(i, ingestors[i])])]
                    ELSE [ingestors EXCEPT ![i].pc = "check"]
    /\ UNCHANGED <<partitions, offsets, plog>>
    /\ UNCHANGED <<indVars, anVars, hubVars, queueVars, appVars, svcVars>>

\* the sleep is over (FinageIngestor: reconnect_delay = min(reconnect_delay
\* * 2, max_delay))
FeedWake(i) ==
    /\ ingestors[i].pc = "sleeping"
    /\ ingestors' = [ingestors EXCEPT
                       ![i].pc = "check",
                       ![i].reconnect_delay = IF i # "binance" THEN Min(@ * 2, MAX_DELAY)
                                              ELSE @]
    /\ UNCHANGED <<partitions, offsets, plog>>
    /\ UNCHANGED <<indVars, anVars, hubVars, queueVars, appVars, svcVars>>

\* BinanceIngestor.stop / FinageIngestor.stop, called from another task
FeedStop(i) ==
    /\ i \in StoppableFeeds
    /\ ~ingestors[i].stopped
    /\ ingestors' = [ingestors EXCEPT
                       ![i].running = FALSE, ![i].stopped = TRUE,
                       ![i].stopped_in = ingestors[i].pc,
                       ![i].attempts_at_stop = ingestors[i].attempts]
    /\ UNCHANGED <<partitions, offsets, plog>>
    /\ UNCHANGED <<indVars, anVars, hubVars, queueVars, appVars, svcVars>>

NextIngestor ==
    \/ \E i \in StoppableFeeds : FeedStart(i)
    \/ \E i \in StoppableFeeds : FeedLoop(i)
    \/ \E i \in StoppableFeeds, ok \in BOOLEAN : FeedConnect(i, ok)
    \/ \E i \in StoppableFeeds : FeedNextRead(i)
    \/ BinanceTrade
    \/ BinanceMalformed
    \/ \E ping_ok \in BOOLEAN : BinanceTimeout(ping_ok)
    \/ \E wellformed \in BOOLEAN : FinageMessage(wellformed)
    \/ \E i \in StoppableFeeds : FeedConnectionLost(i)
    \/ \E i \in StoppableFeeds : FeedAfterFailure(i)
    \/ \E i \in StoppableFeeds : FeedWake(i)
    \/ \E i \in StoppableFeeds : FeedStop(i)

SpecIngestor == Init /\ [][NextIngestor]_vars

(***************************************************************************)
(* Claims about the feeds' reconnect loops                                 *)
(***************************************************************************)
\* C12: after the k-th consecutive failed connect/stream cycle the ingestor
\* waits min(2^(k-1), 60) seconds before the next connection attempt
C12_SleepIsExponentialBackoff ==
    \A i \in Feeds :
        ingestors[i].slept # None =>
            ingestors[i].slept[1].seconds =
                Min(2 ^ (ingestors[i].slept[1].k - 1), MAX_DELAY)

\* C13: once stop() has been called on a started ingestor (connecting,
\* streaming, waiting on a read, sleeping, or at the loop condition), no
\* further connection attempt is started
C13_NoAttemptAfterStop ==
    \A i \in Feeds :
        (ingestors[i].stopped /\ ingestors[i].stopped_in # "init") =>
            ingestors[i].attempts = ingestors[i].attempts_at_stop

\* the Binance feed was stopped in its sleep and the Finage feed while it
\* waited on a read, and both loops have returned
C13_StoppedAsleepAndReadingBothReturned ==
    /\ ingestors["binance"].stopped_in = "sleeping"
    /\ ingestors["finage"].stopped_in = "reading"
    /\ \A i \in StoppableFeeds : ingestors[i].stopped /\ ingestors[i].pc = "returned"
                        /\ ingestors[i].attempts < MaxAttempts(i)

\* C16: a malformed feed message is dropped with the connection left open:
\* the feed goes on to its next read and no failed cycle is recorded
C16_MalformedLeavesConnectionOpen ==
    [][BinanceMalformed =>
          /\ ingestors'["binance"].pc = "streaming"
          /\ ingestors'["binance"].failures = ingestors["binance"].failures]_vars

(***************************************************************************)
(* Claims about failures of the LLM call and the alert callback            *)
(***************************************************************************)
\* C14: when the LLM call for an alert fails, no analysis event is emitted
\* to subscribers for that alert
C14_FailedLlmEmitsNoAnalysis ==
    qlog.analysis.llm = "failed" => ~qlog.analysis.broadcast

\* C15: an alert that passed the cooldown has been handed to the alert
\* callback exactly once, whatever the audience gate decides and however the
\* LLM call ends
C15_FiredAlertDeliveredOnce ==
    (outcome.fired /\ callbacks.on_alert) => outcome.deliveries = 1

\* an alert was delivered once and its LLM call failed, after an earlier
\* alert had been skipped by the audience gate
C15_DeliveredThoughLlmFailedAndGateSkipped ==
    /\ outcome.fired /\ callbacks.on_alert /\ outcome.deliveries = 1
    /\ outcome.llm = "error"
    /\ stats.alerts_skipped > 0

(***************************************************************************)
(* services/analyzer.py: a poll that returns an error                      *)
(***************************************************************************)
\* polls that return a message carrying an error
MaxPollErrors == 1

\* "if msg.error(): print(...); continue": the loop afterwards
AfterPollErrorRaise == "crashed"
AfterPollError == "running"

\* MarketAnalyzer.start, one iteration: consumer.poll returns a message whose
\* error() is set
AnalyzerPollError ==
    /\ pending = <<>>
    /\ plog.consumer = "running"
    /\ plog.poll_errors < MaxPollErrors
    /\ plog' = [plog EXCEPT !.poll_errors = @ + 1,
                            !.error_after = stats.trades_processed,
                            !.consumer = AfterPollError]
    /\ UNCHANGED <<partitions, offsets, ingestors>>
    /\ UNCHANGED <<indVars, anVars, hubVars, queueVars, appVars, svcVars>>

NextConsumer ==
    \/ AnalyzerConsume(MaxGatedTrades)
    \/ MaybeTriggerFire
    \/ MaybeTriggerGate
    \/ ClockAdvance
    \/ AnalyzerPollError

SpecConsumer == Init /\ [][NextConsumer]_vars

\* C17: a poll that returns a message carrying a transport error changes no
\* detector state, cooldown entry or counter, emits no alert, and leaves the
\* consume loop running
C17_PollErrorSkipsThePoll ==
    [][plog'.poll_errors > plog.poll_errors =>
          /\ UNCHANGED <<indVars, cooldowns, stats, emitted, pending>>
          /\ plog'.consumer = "running"]_vars

\* a poll failed after a first trade, and the loop went on to process a
\* later trade that raised an alert
C17_TradeProcessedAfterPollError ==
    /\ plog.poll_errors > 0
    /\ plog.error_after > 0
    /\ stats.trades_processed > plog.error_after
    /\ outcome.fired /\ outcome.trigger # None
    /\ outcome.trigger[1].trade.time > 1000

(***************************************************************************)
(* main.py: lifespan, startup and shutdown of the background tasks         *)
(***************************************************************************)
\* tasks whose coroutine can return: an ingestor's connect once it is
\* stopped, intelligence_worker without a Gemini key
CanReturn == {1, 2, 4}
\* tasks whose coroutine can end with an exception: processing_worker (no
\* try in its loop: float(tick['ltp'])) and intelligence_worker (its setup
\* before the loop)
CanFail == {3, 4}

\* "await task" for a task in this state raises something other than
\* CancelledError
AwaitRaises(state) == state = "failed"

\* lifespan up to its yield: every task created
LifespanStartup ==
    /\ lifespan.pc = "startup"
    /\ lifespan' = [lifespan EXCEPT !.pc = "serving",
                                    !.state = [n \in 1..Len(Tasks) |-> "running"]]
    /\ UNCHANGED <<indVars, anVars, hubVars, queueVars, logVars, svcVars>>

\* a task's coroutine returns (while lifespan is suspended at its yield or
\* in an await)
TaskReturns(n) ==
    /\ lifespan.pc \in {"serving", "await"}
    /\ n \in CanReturn
    /\ lifespan.state[n] = "running"
    /\ lifespan' = [lifespan EXCEPT !.state[n] = "returned"]
    /\ UNCHANGED <<indVars, anVars, hubVars, queueVars, logVars, svcVars>>

\* a task's coroutine ends with an exception
TaskFails(n) ==
    /\ lifespan.pc \in {"serving", "await"}
    /\ n \in CanFail
    /\ lifespan.state[n] = "running"
    /\ lifespan' = [lifespan EXCEPT !.state[n] = "failed"]
    /\ UNCHANGED <<indVars, anVars, hubVars, queueVars, logVars, svcVars>>

\* the application shuts down: lifespan resumes after its yield
LifespanShutdown ==
    /\ lifespan.pc = "serving"
    /\ lifespan' = [lifespan EXCEPT !.pc = "cancel", !.i = 1]
    /\ UNCHANGED <<indVars, anVars, hubVars, queueVars, logVars, svcVars>>

\* "for task in tasks: task.cancel()": a finished task is left as it is
ShutdownCancel ==
    /\ lifespan.pc = "cancel"
    /\ LET n == lifespan.i
       IN  lifespan' = [lifespan EXCEPT
                          !.pc = "await",
                          !.cancelled = @ \cup {n},
                          !.state[n] = IF @ = "running" THEN "cancelling" ELSE @]
    /\ UNCHANGED <<indVars, anVars, hubVars, queueVars, logVars, svcVars>>

\* "try: await task / except asyncio.CancelledError: pass": the task's
\* CancelledError is caught, its return value is dropped, its exception
\* leaves lifespan
ShutdownAwait ==
    /\ lifespan.pc = "await"
    /\ LET n == lifespan.i
       IN  lifespan' = [lifespan EXCEPT
                          !.awaited = @ \cup {n},
                          !.state[n] = IF @ = "cancelling" THEN "cancelled" ELSE @,
                          !.i = IF AwaitRaises(lifespan.state[n]) \/ n = Len(Tasks)
                                THEN @ ELSE @ + 1,
                          !.pc = IF AwaitRaises(lifespan.state[n]) THEN "raised"
                                 ELSE IF n = Len(Tasks) THEN "exited"
                                 ELSE "cancel"]
    /\ UNCHANGED <<indVars, anVars, hubVars, queueVars, logVars, svcVars>>

NextLifespan ==
    \/ LifespanStartup
    \/ \E n \in 1..Len(Tasks) : TaskReturns(n)
    \/ \E n \in 1..Len(Tasks) : TaskFails(n)
    \/ LifespanShutdown
    \/ ShutdownCancel
    \/ ShutdownAwait

SpecLifespan == Init /\ [][NextLifespan]_vars

\* C18: when lifespan has left its shutdown code, every task it created has
\* been cancelled and awaited, whether it was running, had returned or had
\* failed
C18_EveryTaskCancelledAndAwaited ==
    lifespan.pc \in {"exited", "raised"} =>
        \A n \in 1..Len(Tasks) : n \in lifespan.cancelled /\ n \in lifespan.awaited

(***************************************************************************)
(* Claims about the RSI values                                             *)
(***************************************************************************)
\* the closes of the completed buckets: all but the last entry, which is the
\* price of the bucket the tick has just opened
CompletedCloses(calc) == SubSeq(calc.closes, 1, Len(calc.closes) - 1)

\* C19: an RSI value returned by RSICalculator.update is computed from the
\* closes of completed buckets only: it is the value those closes give
\* without the price of the bucket that is still open
C19_RsiFromCompletedBucketsOnly ==
    (ret.fn = "rsi" /\ ret.result # None) =>
        LET calc == calculators[ret.symbol]
        IN  ret.result[1].rsi =
                calculate_rsi([calc EXCEPT !.closes = CompletedCloses(calc)])

StrictlyIncreasing(s) == \A i \in 1..(Len(s) - 1) : s[i] < s[i + 1]
StrictlyDecreasing(s) == \A i \in 1..(Len(s) - 1) : s[i] > s[i + 1]
AllEqual(s) == \A i \in 1..(Len(s) - 1) : s[i] = s[i + 1]

\* C20: a bucket-opening tick that returns an RSI returns 100 and overbought
\* for strictly increasing stored closes, a value below 10 and oversold for
\* strictly decreasing ones, and 50 with neither flag for equal ones
C20_RsiOfMonotoneCloses ==
    (ret.fn = "rsi" /\ ret.result # None) =>
        LET closes == calculators[ret.symbol].closes
            r == ret.result[1]
        IN  /\ StrictlyIncreasing(closes) =>
                  r.rsi = 10000 /\ r.is_overbought /\ ~r.is_oversold
            /\ StrictlyDecreasing(closes) =>
                  r.rsi < 1000 /\ r.is_oversold /\ ~r.is_overbought
            /\ AllEqual(closes) =>
                  r.rsi = 5000 /\ ~r.is_overbought /\ ~r.is_oversold

\* a tick opened the third bucket of a symbol below two falling closes and
\* was answered with an RSI under 10 and the oversold flag
C20_FallingClosesReportedOversold ==
    /\ ret.fn = "rsi" /\ ret.result # None
    /\ Len(calculators[ret.symbol].closes) = Period + 1
    /\ StrictlyDecreasing(calculators[ret.symbol].closes)
    /\ ret.result[1].rsi < 1000
    /\ ret.result[1].is_oversold

(***************************************************************************)
(* Claims about the calls of the detectors                                 *)
(***************************************************************************)
\* the bucket of a timestamp: timestamp_ms // 1000
Bucket(timestamp_ms) == timestamp_ms \div 1000

\* what C21 says of one call of RSICalculator.update for symbol s, from the
\* calculators before and after it and the value returned
RsiCallAsClaimed(before, after, s, price, timestamp_ms, result) ==
    LET new == after[s].closes
    IN  IF s \notin DOMAIN before
        THEN result = None /\ new = <<price>>
        ELSE LET old == before[s]
                 b == Bucket(timestamp_ms)
             IN  /\ b = old.last_candle_time =>
                       /\ result = None
                       /\ new = [old.closes EXCEPT ![Len(old.closes)] = price]
                 /\ result # None =>
                       b > old.last_candle_time /\ Len(new) > old.period
                 /\ b > old.last_candle_time =>
                       new = DequeAppend(old.closes, price, old.period + 1)

\* C21: update returns none on a symbol's first tick and on a tick of the
\* last bucket, which only overwrites the last close; it returns a result
\* only on a tick of a later bucket once more than period closes are stored;
\* a tick after a gap appends exactly one close
C21_RsiReturnsOnNewBucketOnly ==
    [][ret'.n = ret.n + 1 /\ ret'.fn = "rsi" =>
          RsiCallAsClaimed(calculators, calculators', ret'.symbol, ret'.price,
                           ret'.time, ret'.result)]_vars

\* C22: a result returned on a bucket-opening tick reports as current_volume
\* the volume of all ticks of the bucket just closed, as average_volume the
\* mean of the completed buckets before it that are still in the window, as
\* multiplier their quotient (0 for an average of 0), and is_spike exactly
\* when the quotient exceeds the threshold
C22_ResultIsOfTheBucketJustClosed ==
    (ret.fn = "volume" /\ ret.result # None) =>
        LET r == ret.result[1]
            closed == ret.sums[ret.symbol].closed
            previous == SubSeq(closed, 1, Len(closed) - 1)
        IN  /\ Len(closed) >= MIN_WINDOWS
            /\ r.current_volume = closed[Len(closed)]
            /\ r.average_sum = SumSeq(previous) /\ r.average_n = Len(previous)
            /\ r.spike_multiplier =
                  IF r.average_sum > 0
                  THEN RoundDiv(100 * r.current_volume * r.average_n, r.average_sum)
                  ELSE 0
            /\ r.is_spike <=>
                  (r.average_sum > 0 /\
                   r.current_volume * r.average_n > SPIKE_THRESHOLD * r.average_sum)

\* C23: VolumeSpikeDetector.update returns none on a symbol's first tick, on
\* a tick in the bucket of the symbol's previous tick, and on a bucket
\* transition that leaves fewer than 5 completed buckets stored; the stored
\* bucket sums never number more than window_size
C23_VolumeNoneUntilFiveBuckets ==
    [][ret'.n = ret.n + 1 /\ ret'.fn = "volume" =>
          LET s == ret'.symbol
              stored == aggregators'[s].window_volumes
          IN  /\ s \notin DOMAIN aggregators => ret'.result = None
              /\ (ret.fn = "volume" /\ ret.symbol = s
                  /\ Bucket(ret'.time) = Bucket(ret.time)) => ret'.result = None
              /\ Len(stored) < MIN_WINDOWS => ret'.result = None
              /\ Len(stored) <= aggregators'[s].window_size]_vars

\* a tick closed a bucket when window_size bucket sums were stored already,
\* and a result came back
C23_ResultWithFullHistory ==
    /\ ret.fn = "volume" /\ ret.result # None
    /\ ret.pre_len = WindowSize
    /\ Len(aggregators[ret.symbol].window_volumes) = WindowSize

\* the entries of a symbol before a call, with the call's tick appended
WithTick(hist, symbol, price, timestamp_ms) ==
    Append(IF symbol \in DOMAIN hist THEN hist[symbol] ELSE <<>>,
           <<timestamp_ms, price>>)

\* the first of the entries h that is not older than the cutoff
FirstInWindow(h, cutoff) ==
    h[CHOOSE i \in 1..Len(h) :
          /\ h[i][1] >= cutoff
          /\ \A j \in 1..(i - 1) : h[j][1] < cutoff]

C25_ExpiredBaselineGivesNone ==
    [][(/\ ret'.n = ret.n + 1 /\ ret'.fn = "price"
        /\ ret'.symbol \in DOMAIN history
        /\ \A i \in 1..Len(history[ret'.symbol]) :
               history[ret'.symbol][i][1] < ret'.time - WindowSeconds * 1000)
       => /\ ret'.result = None
          /\ history'[ret'.symbol] = <<(<<ret'.time, ret'.price>>)>>]_vars

\* three ticks of one symbol: the second found the first expired and stayed
\* alone, and the third was reported as a move from the second
C25_MoveMeasuredFromNewBaseline ==
    /\ ret.fn = "price" /\ ret.n = 3 /\ ret.result # None
    /\ DOMAIN history = {ret.symbol}
    /\ ret.pre_len = 1
    /\ Len(history[ret.symbol]) = 2
    /\ history[ret.symbol][1][1] > WindowSeconds * 1000
    /\ history[ret.symbol][2][1] > history[ret.symbol][1][1]

\* the levels the move from last_price to price crosses, with the direction
CrossedUp(last_price, price) ==
    {i \in 1..Len(LEVELS) : last_price < LEVELS[i] /\ LEVELS[i] <= price}
CrossedDown(last_price, price) ==
    {i \in 1..Len(LEVELS) : last_price > LEVELS[i] /\ LEVELS[i] >= price}

\* C26: LevelCrossDetector.update returns none on the first tick of a symbol;
\* on a later tick it returns a result exactly when some level L has
\* last_price < L <= price (UP) or last_price > L >= price (DOWN), the one
\* result names such a level with its direction, and the call always leaves
\* last_price equal to the price of the tick.
C26_LevelResultIffCrossed ==
    [][ret'.n = ret.n + 1 /\ ret'.fn = "level" =>
         /\ last_prices'[ret'.symbol] = ret'.price
         /\ ret'.symbol \notin DOMAIN last_prices => ret'.result = None
         /\ ret'.symbol \in DOMAIN last_prices =>
              LET last_price == last_prices[ret'.symbol]
                  up == CrossedUp(last_price, ret'.price)
                  down == CrossedDown(last_price, ret'.price)
              IN  /\ ret'.result # None <=> up \cup down # {}
                  /\ ret'.result # None =>
                       /\ ret'.result[1].price = ret'.price
                       /\ \E i \in up \cup down :
                            /\ ret'.result[1].level = LEVELS[i]
                            /\ ret'.result[1].direction =
                                  (IF i \in up THEN "UP" ELSE "DOWN")]_vars

\* a second tick that falls onto exactly 68000 is reported as a DOWN cross of it
C26_FallOntoLevelReportedDown ==
    /\ ret.fn = "level" /\ ret.n = 2
    /\ ret.price = 68000
    /\ ret.result # None
    /\ ret.result[1].direction = "DOWN"
    /\ ret.result[1].level = 68000
    /\ last_prices[ret.symbol] = 68000

(***************************************************************************)
(* Claims about the IndicatorEngine.                                       *)
(***************************************************************************)
\* the window after the call is a run of one price followed by the tick
AfterBaseline(w) == Len(w) >= 2 /\ \A i \in 1..(Len(w) - 1) : w[i] = w[1]

\* what every snapshot satisfies: no breakout on a symbol's first tick, none
\* when the volatility is 0, and direction NONE exactly when there is none
BreakoutGuards ==
    /\ ret.pre_len = 0 => ~ret.result.is_breakout
    /\ ret.result.variance.num = 0 => ~ret.result.is_breakout
    /\ ret.result.breakout_direction = "NONE" <=> ~ret.result.is_breakout

\* a tick off the baseline is a breakout, UP above it and DOWN below it
BreakoutReported(w) ==
    /\ w[Len(w)] > w[1] =>
          ret.result.is_breakout /\ ret.result.breakout_direction = "UP"
    /\ w[Len(w)] < w[1] =>
          ret.result.is_breakout /\ ret.result.breakout_direction = "DOWN"

SameLaterCall(d, before, after, other) ==
    \A price \in FramePrices, volume \in FrameVolumes, t \in FrameTimes :
        LET a == Call(d, after, other, price, volume, t)
            b == Call(d, before, other, price, volume, t)
        IN  /\ a.result = b.result
            /\ Stored(d, a.state, other) = Stored(d, b.state, other)

\* C27: an update for one symbol on any detector (RSI, volume, price change,
\* level cross, IndicatorEngine) leaves what every detector stores for every
\* other symbol unchanged, and with it the results of the later updates of the
\* other symbols; each detector tracks exactly as many symbols as it has seen.
C27_UpdateTouchesItsSymbolOnly ==
    [][ret'.n = ret.n + 1 /\ ret'.fn = "frame" =>
         \A d \in Detectors :
            LET before == StateOf(d, calculators, aggregators, history,
                                  last_prices, price_windows, volume_windows)
                after == StateOf(d, calculators', aggregators', history',
                                 last_prices', price_windows', volume_windows')
            IN  /\ Cardinality(Tracked(d, after)) = Cardinality(ret'.seen[d])
                /\ \A other \in Tracked(d, before) \ {ret'.symbol} :
                      /\ other \in Tracked(d, after)
                      /\ Stored(d, after, other) = Stored(d, before, other)
                /\ \A other \in Symbols \ {ret'.symbol} :
                      SameLaterCall(d, before, after, other)]_vars

\* the level detector has seen both symbols: the second symbol's tick left the
\* last price of the first symbol, on the other side of 69000, as it was
C27_TwoSymbolsTrackedApart ==
    /\ ret.fn = "frame" /\ ret.detector = "level"
    /\ ret.seen["level"] = Symbols
    /\ DOMAIN last_prices = Symbols
    /\ \E other \in Symbols \ {ret.symbol} :
          last_prices[other] # last_prices[ret.symbol]
    /\ ret.result = None

(***************************************************************************)
(* Claims about the alert deduplication.                                   *)
(***************************************************************************)
\* the calls the server answered with "set"
AnsweredTrue == {r \in redis.returned : r.how = "reply" /\ r.value}

\* C28: among the calls of should_send_alert for one symbol that Redis answers
\* within one cooldown period of ALERT_COOLDOWN seconds, concurrent ones
\* included, at most one returns True.
C28_OneAlertPerSymbolPerCooldown ==
    \A a \in AnsweredTrue, b \in AnsweredTrue :
        (a # b /\ a.symbol = b.symbol) => Abs(a.at - b.at) >= ALERT_COOLDOWN

(***************************************************************************)
(* MarketAnalyzer.start on the event loop.  One thread runs the tasks; a   *)
(* task keeps it until it suspends in an await.                            *)
(***************************************************************************)
MaxDelivered == 3
MaxIterations == 3
MaxOtherRuns == 2

LoopFrame ==
    /\ UNCHANGED <<price_windows, volume_windows, redis>>
    /\ UNCHANGED <<indVars, anVars, hubVars, queueVars, logVars, appVars>>

\* the end of an iteration of "while self.running"
IterationEnds(msg) ==
    [evloop EXCEPT !.pc = "head", !.iterations = @ + 1,
                   !.last_yielded = evloop.yielded, !.last_msg = msg,
                   !.yielded = FALSE]

\* an await that suspends: the thread goes back to the event loop
Suspend(pc) == [evloop EXCEPT !.current = "loop", !.pc = pc, !.yielded = TRUE]

\* the broker's client thread fetches a trade of the topic
LoopBrokerDelivers ==
    /\ evloop.delivered < MaxDelivered
    /\ evloop' = [evloop EXCEPT !.backlog = @ + 1, !.delivered = @ + 1]
    /\ LoopFrame

\* msg = self.consumer.poll(1.0) with a message waiting: a plain call
LoopPollTrade ==
    /\ evloop.current = "analyzer" /\ evloop.pc = "head"
    /\ evloop.iterations < MaxIterations
    /\ evloop.backlog > 0
    /\ evloop' = [evloop EXCEPT !.backlog = @ - 1, !.pc = "trade"]
    /\ LoopFrame

\* poll returns None after its timeout: await asyncio.sleep(0.01); continue
LoopPollNone ==
    /\ evloop.current = "analyzer" /\ evloop.pc = "head"
    /\ evloop.iterations < MaxIterations
    /\ evloop.backlog = 0
    /\ evloop' = Suspend("sleep")
    /\ LoopFrame

\* poll returns a message with an error: print; continue
LoopPollError ==
    /\ evloop.current = "analyzer" /\ evloop.pc = "head"
    /\ evloop.iterations < MaxIterations
    /\ evloop' = IterationEnds("error")
    /\ LoopFrame

\* await self._process_trade(trade): the detectors, then _maybe_trigger up to
\* the callback when a trigger fires outside its cooldown
LoopProcessTrade(fires) ==
    /\ evloop.current = "analyzer" /\ evloop.pc = "trade"
    /\ evloop' = IF fires THEN [evloop EXCEPT !.pc = "on_alert"]
                 ELSE IterationEnds("trade")
    /\ LoopFrame

\* if self.on_alert: await self.on_alert(alert): the callback may suspend
LoopOnAlert(suspends) ==
    /\ evloop.current = "analyzer" /\ evloop.pc = "on_alert"
    /\ evloop' = IF suspends THEN Suspend("on_alert_wait")
                 ELSE [evloop EXCEPT !.pc = "gate"]
    /\ LoopFrame

\* the audience check: return, or go on to _generate_ai_analysis
LoopGate(has_audience) ==
    /\ evloop.current = "analyzer" /\ evloop.pc = "gate"
    /\ evloop' = IF has_audience THEN [evloop EXCEPT !.pc = "generate"]
                 ELSE IterationEnds("alert")
    /\ LoopFrame

\* response = self.ai_client.models.generate_content(...): a plain call; then
\* await self.on_analysis(...), which may suspend, or the except branch
LoopGenerate(ok, suspends) ==
    /\ evloop.current = "analyzer" /\ evloop.pc = "generate"
    /\ evloop' = IF ok /\ suspends THEN Suspend("on_analysis_wait")
                 ELSE IterationEnds("analysis")
    /\ LoopFrame

\* the event loop gives the thread back to the analyzer
LoopResume ==
    /\ evloop.current = "loop"
    /\ evloop.pc \in {"sleep", "on_alert_wait", "on_analysis_wait"}
    /\ evloop' =
         CASE evloop.pc = "sleep" ->
                [IterationEnds("none") EXCEPT !.current = "analyzer"]
           [] evloop.pc = "on_alert_wait" ->
                [evloop EXCEPT !.current = "analyzer", !.pc = "gate"]
           [] evloop.pc = "on_analysis_wait" ->
                [IterationEnds("analysis") EXCEPT !.current = "analyzer"]
    /\ LoopFrame

\* the event loop runs a step of another task while the analyzer is suspended
LoopOtherTask(t) ==
    /\ evloop.current = "loop"
    /\ evloop.ran[t] < MaxOtherRuns
    /\ evloop' = [evloop EXCEPT !.ran[t] = @ + 1]
    /\ LoopFrame

NextLoop ==
    \/ LoopBrokerDelivers
    \/ LoopPollTrade
    \/ LoopPollNone
    \/ LoopPollError
    \/ \E fires \in BOOLEAN : LoopProcessTrade(fires)
    \/ \E suspends \in BOOLEAN : LoopOnAlert(suspends)
    \/ \E has_audience \in BOOLEAN : LoopGate(has_audience)
    \/ \E ok \in BOOLEAN, suspends \in BOOLEAN : LoopGenerate(ok, suspends)
    \/ LoopResume
    \/ \E t \in OtherTasks : LoopOtherTask(t)

SpecLoop == Init /\ [][NextLoop]_vars

\* C29: every iteration of the analyzer's consume loop that took a trade from
\* the topic has passed through the event loop, so that the ingestor and the
\* subscriber tasks can be scheduled while trades are waiting.
C29_EveryIterationYields ==
    (/\ evloop.iterations > 0 /\ evloop.pc = "head"
     /\ evloop.last_msg \in {"trade", "alert", "analysis"})
    => evloop.last_yielded

(***************************************************************************)
(* The analyzer under at-least-once delivery: the analyzer of the model    *)
(* gets some trades twice in a row, a second analyzer (ret.twin) gets the  *)
(* same trades once each, at the same readings of the clock.               *)
(***************************************************************************)
DupVolumes == {1, 3}
DupPrices == {100}
MaxDeliveries == 6
MaxDuplicates == 1

\* _maybe_trigger for each trigger in turn: the cooldown check, the cooldown
\* entry and the AlertEvent
RECURSIVE MaybeTriggerAll(_, _, _, _)
MaybeTriggerAll(st, triggers, symbol, now) ==
    IF triggers = <<>> THEN st
    ELSE LET key == CooldownKey(symbol, Head(triggers).trigger_type)
             last_time == IF key \in DOMAIN st.cooldowns THEN st.cooldowns[key] ELSE 0
         IN  IF InCooldown(now, last_time)
             THEN MaybeTriggerAll(st, Tail(triggers), symbol, now)
             ELSE MaybeTriggerAll(
                      [st EXCEPT !.cooldowns = IF key \in DOMAIN st.cooldowns
                                               THEN [st.cooldowns EXCEPT ![key] = now]
                                               ELSE st.cooldowns @@ (key :> now),
                                 !.emitted = Append(@, [key |-> key, at |-> now])],
                      Tail(triggers), symbol, now)

\* MarketAnalyzer._process_trade with every _maybe_trigger it awaits, on the
\* analyzer state st
ProcessTradeOn(st, trade, now) ==
    LET r == RSICalculator_update(st.calculators, trade.symbol, trade.price, trade.time)
        v == VolumeSpikeDetector_update(st.aggregators, trade.symbol, trade.volume,
                                        trade.time)
        w == PriceChangeDetector_update(st.history, WindowSeconds, trade.symbol,
                                        trade.price, trade.time)
        l == LevelCrossDetector_update(st.last_prices, trade.symbol, trade.price)
    IN  MaybeTriggerAll([st EXCEPT !.calculators = r.calculators,
                                   !.aggregators = v.aggregators,
                                   !.history = w.history,
                                   !.last_prices = l.last_prices],
                        Triggers(r.result, v.result, w.result, l.result),
                        trade.symbol, now)

\* the analyzer of the model as such a state
ThisAnalyzer ==
    [calculators |-> calculators, aggregators |-> aggregators, history |-> history,
     last_prices |-> last_prices, cooldowns |-> cooldowns, emitted |-> emitted]

\* event times of the deliveries: the second of the last trade or the next one
DeliveryTimes == {t \in Times : t >= 1000 /\ t >= ret.time /\ t <= ret.time + 1000}

\* the log delivers a trade, once or twice in a row; the analyzer processes
\* each delivery
DeliverTrade ==
    /\ ret.n < MaxDeliveries
    /\ pending = <<>>
    /\ \E symbol \in VolumeSymbols, price \in DupPrices, volume \in DupVolumes,
          t \in DeliveryTimes, twice \in BOOLEAN :
         LET trade == [symbol |-> symbol, price |-> price, volume |-> volume,
                       time |-> t]
             once == ProcessTradeOn(ThisAnalyzer, trade, clock)
             after == IF twice THEN ProcessTradeOn(once, trade, clock) ELSE once
         IN  /\ twice => ret.dups < MaxDuplicates
             /\ calculators' = after.calculators
             /\ aggregators' = after.aggregators
             /\ history' = after.history
             /\ last_prices' = after.last_prices
             /\ cooldowns' = after.cooldowns
             /\ emitted' = after.emitted
             /\ stats' = [stats EXCEPT
                            !.trades_processed = @ + (IF twice THEN 2 ELSE 1),
                            !.alerts_triggered = @ + Len(after.emitted) - Len(emitted)]
             /\ ret' = [NoCall EXCEPT
                          !.n = ret.n + 1, !.fn = "deliver", !.symbol = symbol,
                          !.price = price, !.volume = volume, !.time = t,
                          !.twin = ProcessTradeOn(ret.twin, trade, clock),
                          !.dups = ret.dups + (IF twice THEN 1 ELSE 0)]
    /\ UNCHANGED <<callbacks, clock, outcome, pending>>
    /\ UNCHANGED <<hubVars, queueVars, logVars, appVars, svcVars>>

SpecDuplicates == Init /\ [][DeliverTrade]_vars

\* C31: every AlertEvent the analyzer emits for a trade sequence with trades
\* delivered twice in a row is also emitted by an analyzer that gets the same
\* sequence without the duplicates.
C31_DuplicatesEmitNoNewAlert ==
    ret.fn = "deliver" => Range(emitted) \subseteq Range(ret.twin.emitted)

(***************************************************************************)
(* The reconnect loops of BinanceIngestor and KiteTickerIngestor with the  *)
(* progress of their coroutines: a coroutine that can go on does go on, a  *)
(* sleep ends.                                                             *)
(***************************************************************************)
ReconnectFeeds == {"binance", "kite"}

NextReconnect ==
    \/ \E i \in ReconnectFeeds : FeedStart(i)
    \/ \E i \in ReconnectFeeds : FeedLoop(i)
    \/ \E i \in ReconnectFeeds, ok \in BOOLEAN : FeedConnect(i, ok)
    \/ \E i \in ReconnectFeeds : FeedNextRead(i)
    \/ BinanceTrade
    \/ BinanceMalformed
    \/ \E ping_ok \in BOOLEAN : BinanceTimeout(ping_ok)
    \/ \E wellformed \in BOOLEAN : KiteMessage(wellformed)
    \/ \E i \in ReconnectFeeds : FeedConnectionLost(i)
    \/ \E i \in ReconnectFeeds : FeedAfterFailure(i)
    \/ \E i \in ReconnectFeeds : FeedWake(i)
    \/ FeedStop("binance")

\* the steps a coroutine takes by itself after an error
ReconnectProgress ==
    \A i \in ReconnectFeeds :
        /\ WF_vars(FeedAfterFailure(i))
        /\ WF_vars(FeedWake(i))
        /\ WF_vars(FeedLoop(i))

SpecReconnect == Init /\ [][NextReconnect]_vars /\ ReconnectProgress

\* C32: every fatal transport error of an ingestor (a failed connect, a
\* closed socket, a failed keepalive ping) is eventually followed by a new
\* connection attempt, unless the ingestor is stopped; the attempts of a run
\* are capped by MaxAttempts.
C32_ErrorLeadsToNewAttempt ==
    \A i \in ReconnectFeeds :
        (ingestors[i].pc = "failed" /\ ingestors[i].attempts < MaxAttempts(i))
            ~> (ingestors[i].pc = "connecting" \/ ingestors[i].stopped)

\* both feeds are at their second connection attempt after a failed cycle,
\* and neither was stopped
C32_BothFeedsReconnecting ==
    \A i \in ReconnectFeeds :
        /\ ingestors[i].pc = "connecting"
        /\ ingestors[i].attempts = 2
        /\ ingestors[i].failures = 1
        /\ ~ingestors[i].stopped

\* C33: when a tick crosses several levels at once, the one result names the
\* lowest crossed level, for an UP move and for a DOWN move alike.
C33_LowestCrossedLevelReported ==
    [][(/\ ret'.n = ret.n + 1 /\ ret'.fn = "level"
        /\ ret'.symbol \in DOMAIN last_prices
        /\ ret'.result # None)
       => LET crossed == CrossedUp(last_prices[ret'.symbol], ret'.price)
                           \cup CrossedDown(last_prices[ret'.symbol], ret'.price)
          IN  /\ crossed # {}
              /\ \A i \in crossed : ret'.result[1].level <= LEVELS[i]]_vars

\* a fall from 70500 to 67500 crosses 70000, 69000 and 68000 and is reported
\* as a DOWN cross of 68000
C33_FallThroughThreeLevels ==
    /\ ret.fn = "level"
    /\ ret.last_price = 70500 /\ ret.price = 67500
    /\ ret.result # None
    /\ ret.result[1].direction = "DOWN"
    /\ ret.result[1].level = 68000

(***************************************************************************)
(* ingestors/kite.py and ingestors/finage.py: the reconnect delay          *)
(***************************************************************************)
\* the two feeds that back off exponentially
BackoffFeeds == {"kite", "finage"}

NextBackoff ==
    \/ \E i \in BackoffFeeds : FeedStart(i)
    \/ \E i \in BackoffFeeds : FeedLoop(i)
    \/ \E i \in BackoffFeeds, ok \in BOOLEAN : FeedConnect(i, ok)
    \/ \E i \in BackoffFeeds : FeedNextRead(i)
    \/ \E wellformed \in BOOLEAN : KiteMessage(wellformed)
    \/ \E wellformed \in BOOLEAN : FinageMessage(wellformed)
    \/ \E i \in BackoffFeeds : FeedConnectionLost(i)
    \/ \E i \in BackoffFeeds : FeedAfterFailure(i)
    \/ \E i \in BackoffFeeds : FeedWake(i)
    \/ FeedStop("finage")

SpecBackoff == Init /\ [][NextBackoff]_vars

\* C34: in KiteTickerIngestor.connect and FinageIngestor.connect the
\* reconnect delay is always between 1 and 60 seconds, every reconnect wait
\* lasts the current delay and doubles it afterwards (capped at 60), and every
\* successful connection resets it to 1, so that a connection that had
\* succeeded is followed by a wait of 1 second.
C34_DelayBoundedDoubledAndReset ==
    /\ [](\A i \in BackoffFeeds :
            /\ 1 <= ingestors[i].reconnect_delay
            /\ ingestors[i].reconnect_delay <= MAX_DELAY
            /\ ingestors[i].pc \in {"streaming", "reading"}
                  => ingestors[i].reconnect_delay = 1)
    /\ [][\A i \in BackoffFeeds :
            /\ (ingestors[i].pc = "sleeping" /\ ingestors'[i].pc = "check")
                  => ingestors'[i].reconnect_delay
                         = Min(2 * ingestors[i].reconnect_delay, MAX_DELAY)
            /\ (ingestors[i].pc = "connecting" /\ ingestors'[i].pc = "streaming")
                  => ingestors'[i].reconnect_delay = 1
            /\ (ingestors[i].pc = "failed" /\ ingestors'[i].pc = "sleeping")
                  => ingestors'[i].slept = Some([k |-> ingestors[i].failures,
                                                 seconds |-> ingestors[i].reconnect_delay])
            /\ (ingestors[i].pc \in {"streaming", "reading"} /\ ingestors'[i].pc = "failed")
                  => ingestors'[i].reconnect_delay = 1]_vars

\* the Finage feed has backed off to the 60 second cap, while the Kite feed,
\* whose third attempt connected after two waits, lost that connection and
\* waits 1 second
C34_CappedAndResetAfterSuccess ==
    /\ ingestors["finage"].reconnect_delay = MAX_DELAY
    /\ ingestors["finage"].failures = 7
    /\ ingestors["kite"].pc = "sleeping"
    /\ ingestors["kite"].attempts = 3
    /\ ingestors["kite"].failures = 1
    /\ ingestors["kite"].slept = Some([k |-> 1, seconds |-> 1])

(***************************************************************************)
(* services/ingestor.py: start() after stop()                              *)
(***************************************************************************)
NextShutdown ==
    \/ FeedStart("binance")
    \/ FeedLoop("binance")
    \/ \E ok \in BOOLEAN : FeedConnect("binance", ok)
    \/ FeedNextRead("binance")
    \/ BinanceTrade
    \/ BinanceMalformed
    \/ \E ping_ok \in BOOLEAN : BinanceTimeout(ping_ok)
    \/ FeedConnectionLost("binance")
    \/ FeedAfterFailure("binance")
    \/ FeedWake("binance")
    \/ FeedStop("binance")

\* a pending read ends: a message is delivered, 30 seconds pass, or the read
\* fails
ReadEnds ==
    \/ BinanceTrade
    \/ BinanceMalformed
    \/ \E ping_ok \in BOOLEAN : BinanceTimeout(ping_ok)
    \/ FeedConnectionLost("binance")

\* the coroutine is scheduled again whenever it can go on: websockets.connect
\* ends (connected or raised), a pending read ends, the sleep of 5 seconds
\* ends, and the statements between the awaits run
ShutdownProgress ==
    /\ WF_vars(FeedLoop("binance"))
    /\ WF_vars(\E ok \in BOOLEAN : FeedConnect("binance", ok))
    /\ WF_vars(FeedNextRead("binance"))
    /\ WF_vars(ReadEnds)
    /\ WF_vars(FeedAfterFailure("binance"))
    /\ WF_vars(FeedWake("binance"))

SpecShutdown == Init /\ [][NextShutdown]_vars /\ ShutdownProgress

\* C35: once stop() has been called on a started BinanceIngestor, start()
\* eventually returns, wherever it was (connecting, in a read, sleeping, at a
\* loop condition), given that a pending read always ends.
C35_StartReturnsAfterStop ==
    (ingestors["binance"].stopped /\ ingestors["binance"].stopped_in # "init")
        ~> (ingestors["binance"].pc = "returned")

\* stop() came while start() waited on a read of a connection that never
\* failed, and start() has returned
C35_StoppedInReadAndReturned ==
    /\ ingestors["binance"].stopped
    /\ ingestors["binance"].stopped_in = "reading"
    /\ ingestors["binance"].failures = 0
    /\ ingestors["binance"].pc = "returned"

(***************************************************************************)
(* state/redis_state.py and main.py: processing_worker without Redis       *)
(***************************************************************************)
\* ticks processing_worker takes from tick_queue
MaxWorkerTicks == 2
\* the instance whose worker is followed
Worker == "w1"

\* the awaits of save_tick (set) and of add_price_point (zadd,
\* zremrangebyrank, expire), in order
Awaits(fn) == IF fn = "save_tick" THEN <<"set">>
              ELSE <<"zadd", "zremrangebyrank", "expire">>

\* what the "except Exception" of save_tick and add_price_point gives back
OnRedisErrorRaise(fn) == [value |-> FALSE, how |-> "error", raised |-> TRUE]
OnRedisError(fn) == [value |-> FALSE, how |-> "error", raised |-> FALSE]

\* a finished call of save_tick or add_price_point
Result(t, r) ==
    [fn |-> t.fn, n |-> t.n, value |-> r.value, how |-> r.how, raised |-> r.raised]

\* processing_worker up to its loop: get_redis_state() makes the manager and
\* awaits connect(), which keeps the client or, on any exception, sets it to
\* None
WorkerStart(ok) ==
    /\ redis.worker[Worker].pc = "start"
    /\ redis.client[Worker] = "new"
    /\ redis' = [redis EXCEPT !.client[Worker] = IF ok THEN "connected" ELSE "none",
                              !.worker[Worker].pc = "get"]
    /\ UNCHANGED <<price_windows, volume_windows, evloop>>
    /\ UNCHANGED <<indVars, anVars, hubVars, queueVars, logVars, appVars>>

\* the rest of an iteration once should_send_alert has answered: a False
\* skips the alert, a True sends it to alert_queue; tick_queue.task_done()
AfterShouldSendAlert(should_alert, tick) ==
    IF should_alert
    THEN LET r == put_nowait(alert_queue, AlertQueueMaxsize, tick)
         IN  /\ alert_queue' = r.queue
             /\ qlog' = [qlog EXCEPT
                    !.rejected.alert = IF r.raised THEN @ + 1 ELSE @,
                    !.drop_log = IF r.raised THEN @ + 1 ELSE @,
                    !.last = [queue |-> "alert", raised |-> r.raised,
                              before |-> alert_queue, after |-> r.queue]]
    ELSE UNCHANGED <<alert_queue, qlog>>

\* one iteration of processing_worker up to its first wait on Redis:
\* tick_queue.get(), engine.update, the two create_task calls, the broadcast
\* and, on a breakout, should_send_alert up to "await self.client.set(...)"
\* (without a client it returns True at once and the iteration ends)
WorkerTick(breakout, direction) ==
    /\ redis.worker[Worker].pc = "get"
    /\ redis.worker[Worker].tick_count < MaxWorkerTicks
    /\ tick_queue # <<>>
    /\ active_connections = <<>>
    /\ LET tick == Head(tick_queue)
           n == redis.worker[Worker].tick_count + 1
           made == {[fn |-> fn, n |-> n, at |-> 0] : fn \in {"save_tick", "add_price_point"}}
           call == [symbol |-> tick.symbol, direction |-> direction]
       IN  /\ tick_queue' = Tail(tick_queue)
           /\ IF ~breakout
              THEN /\ redis' = [redis EXCEPT !.tasks = @ \cup made,
                                             !.worker[Worker].tick_count = n,
                                             !.worker[Worker].done = @ + 1]
                   /\ UNCHANGED <<alert_queue, qlog>>
              ELSE IF redis.client[Worker] = "none"
              THEN /\ redis' = [redis EXCEPT
                                  !.tasks = @ \cup made,
                                  !.worker[Worker].tick_count = n,
                                  !.worker[Worker].done = @ + 1,
                                  !.returned = Returned(Worker, call, TRUE, "no_client")]
                   /\ AfterShouldSendAlert(TRUE, tick)
              ELSE /\ redis' = [redis EXCEPT
                                  !.tasks = @ \cup made,
                                  !.worker[Worker].tick_count = n,
                                  !.worker[Worker].pc = "should_send_alert",
                                  !.inflight[Worker] = Some(call @@ [n |-> tick.n])]
                   /\ UNCHANGED <<alert_queue, qlog>>
    /\ UNCHANGED <<price_windows, volume_windows, evloop>>
    /\ UNCHANGED <<indVars, anVars, hubVars, logVars, appVars>>

\* the server answers SET key "1" EX 30 NX; should_send_alert returns
\* "was_set is not None" and the iteration ends
WorkerAlertReply ==
    /\ redis.worker[Worker].pc = "should_send_alert"
    /\ LET call == redis.inflight[Worker][1]
           key == AlertKey(call.symbol, call.direction)
           was_set == ~KeyExists(key)
       IN  /\ redis' = [redis EXCEPT
                          !.inflight[Worker] = None,
                          !.keys = IF was_set
                                   THEN [k \in DOMAIN redis.keys \cup {key} |->
                                           IF k = key THEN redis.now + ALERT_COOLDOWN
                                           ELSE redis.keys[k]]
                                   ELSE @,
                          !.returned = Returned(Worker, call, was_set, "reply"),
                          !.worker[Worker].pc = "get",
                          !.worker[Worker].done = @ + 1]
           /\ AfterShouldSendAlert(was_set, [symbol |-> call.symbol, n |-> call.n])
    /\ UNCHANGED tick_queue
    /\ UNCHANGED <<price_windows, volume_windows, evloop>>
    /\ UNCHANGED <<indVars, anVars, hubVars, logVars, appVars>>

\* the awaited set raises: "except Exception: return True", and the
\* iteration ends with the alert sent
WorkerAlertRaises ==
    /\ redis.worker[Worker].pc = "should_send_alert"
    /\ LET call == redis.inflight[Worker][1]
       IN  /\ redis' = [redis EXCEPT
                          !.inflight[Worker] = None,
                          !.returned = Returned(Worker, call, TRUE, "error"),
                          !.worker[Worker].pc = "get",
                          !.worker[Worker].done = @ + 1]
           /\ AfterShouldSendAlert(TRUE, [symbol |-> call.symbol, n |-> call.n])
    /\ UNCHANGED tick_queue
    /\ UNCHANGED <<price_windows, volume_windows, evloop>>
    /\ UNCHANGED <<indVars, anVars, hubVars, logVars, appVars>>

\* a task made by create_task runs save_tick / add_price_point up to its
\* first await: "if not self.client: return False"
TaskRun(t) ==
    /\ t \in redis.tasks /\ t.at = 0
    /\ redis.client[Worker] # "new"
    /\ redis' = IF redis.client[Worker] = "none"
                THEN [redis EXCEPT
                        !.tasks = @ \ {t},
                        !.results = @ \cup {Result(t, [value |-> FALSE, how |-> "no_client",
                                                       raised |-> FALSE])}]
                ELSE [redis EXCEPT !.tasks = (@ \ {t}) \cup {[t EXCEPT !.at = 1]}]
    /\ UNCHANGED <<price_windows, volume_windows, evloop>>
    /\ UNCHANGED <<indVars, anVars, hubVars, queueVars, logVars, appVars>>

\* the awaited Redis call of a task is answered: on to the next await, or
\* "return True" after the last
TaskReply(t) ==
    /\ t \in redis.tasks /\ t.at > 0
    /\ redis' = IF t.at = Len(Awaits(t.fn))
                THEN [redis EXCEPT
                        !.tasks = @ \ {t},
                        !.results = @ \cup {Result(t, [value |-> TRUE, how |-> "reply",
                                                       raised |-> FALSE])}]
                ELSE [redis EXCEPT !.tasks = (@ \ {t}) \cup {[t EXCEPT !.at = @ + 1]}]
    /\ UNCHANGED <<price_windows, volume_windows, evloop>>
    /\ UNCHANGED <<indVars, anVars, hubVars, queueVars, logVars, appVars>>

\* the awaited Redis call of a task raises: "except Exception as e: print(...);
\* return False"
TaskRaises(t) ==
    /\ t \in redis.tasks /\ t.at > 0
    /\ redis' = [redis EXCEPT !.tasks = @ \ {t},
                              !.results = @ \cup {Result(t, OnRedisError(t.fn))}]
    /\ UNCHANGED <<price_windows, volume_windows, evloop>>
    /\ UNCHANGED <<indVars, anVars, hubVars, queueVars, logVars, appVars>>

NextFailOpen ==
    \/ TickArrives("mock", MaxWorkerTicks)
    \/ \E ok \in BOOLEAN : WorkerStart(ok)
    \/ \E breakout \in BOOLEAN, direction \in Directions : WorkerTick(breakout, direction)
    \/ WorkerAlertReply
    \/ WorkerAlertRaises
    \/ \E t \in redis.tasks : TaskRun(t)
    \/ \E t \in redis.tasks : TaskReply(t)
    \/ \E t \in redis.tasks : TaskRaises(t)
    \/ IntelligenceWorkerStep

SpecFailOpen == Init /\ [][NextFailOpen]_vars

\* C36: without a client, or when a Redis call raises, should_send_alert
\* returns True and save_tick / add_price_point return False, none of them
\* raises, and processing_worker ends the iteration (task_done) and is back at
\* tick_queue.get().
C36_RedisFailsOpen ==
    /\ \A r \in redis.returned :
          r.how \in {"no_client", "error"} => r.value = TRUE
    /\ \A r \in redis.results :
          /\ ~r.raised
          /\ r.how \in {"no_client", "error"} => r.value = FALSE
    /\ redis.worker[Worker].pc \in {"start", "get", "should_send_alert"}
    /\ redis.worker[Worker].pc = "get"
          => redis.worker[Worker].done = redis.worker[Worker].tick_count
    /\ redis.worker[Worker].pc = "should_send_alert"
          => redis.worker[Worker].done + 1 = redis.worker[Worker].tick_count

\* with Redis connected, the set of should_send_alert and a call of each
\* task raised on the first tick, and the worker has handled the second tick
C36_WorkerWentOnAfterErrors ==
    /\ redis.client[Worker] = "connected"
    /\ \E r \in redis.returned : r.how = "error" /\ r.value = TRUE
    /\ \E r \in redis.results : r.fn = "save_tick" /\ r.n = 1 /\ r.how = "error"
    /\ \E r \in redis.results : r.fn = "add_price_point" /\ r.n = 1 /\ r.how = "error"
    /\ redis.worker[Worker].pc = "get"
    /\ redis.worker[Worker].done = 2

\* C37: the first-tick initialisation of a symbol's volume aggregator happens
\* once: every later tick whose bucket is the open one, bucket 0 included, is
\* added to the open bucket's volume.
C37_LaterTickOfOpenBucketIsAdded ==
    [][(/\ ret'.n = ret.n + 1 /\ ret'.fn = "volume"
        /\ ret'.symbol \in DOMAIN aggregators
        /\ Bucket(ret'.time) = aggregators[ret'.symbol].last_window_time)
       => aggregators'[ret'.symbol].current_window_volume
             = aggregators[ret'.symbol].current_window_volume + ret'.volume]_vars

(***************************************************************************)
(* indicators/price.py: LevelCrossDetector with one level                  *)
(***************************************************************************)
\* LevelCrossDetector(levels=[69000])
SingleLevel == <<69000>>
\* prices below the level, on it and above it
SingleLevelPrices == {68000, 68500, 69000, 69500}
SingleLevelSymbol == "BTCUSDT"
MaxSingleLevelTicks == 6

\* LevelCrossDetector.update of a detector made with the given levels
LevelCrossDetector_updateLevels(levels, lasts, symbol, price) ==
    IF symbol \notin DOMAIN lasts
    THEN [last_prices |-> lasts @@ (symbol :> price), result |-> None]
    ELSE LET c == FirstCross(levels, 1, lasts[symbol], price)
         IN  [last_prices |-> [lasts EXCEPT ![symbol] = price],
              result |-> IF c # None
                         THEN Some([symbol |-> symbol, level |-> c[1].level,
                                    direction |-> c[1].direction, price |-> price])
                         ELSE None]

\* the direction of the latest result before this call ("" when there was
\* none)
PreviousDirection ==
    IF ret.fn # "single_level" THEN ""
    ELSE IF ret.result # None THEN ret.result[1].direction
    ELSE ret.previous

\* one call of update(symbol, price) on the detector with one level
SingleLevelUpdate ==
    /\ ret.n < MaxSingleLevelTicks
    /\ \E price \in SingleLevelPrices :
         LET r == LevelCrossDetector_updateLevels(SingleLevel, last_prices,
                                                  SingleLevelSymbol, price)
         IN  /\ last_prices' = r.last_prices
             /\ ret' = [n |-> ret.n + 1, fn |-> "single_level",
                        symbol |-> SingleLevelSymbol,
                        price |-> price, volume |-> 0, time |-> 0,
                        pre_len |-> 0, result |-> r.result,
                        last_price |-> IF SingleLevelSymbol \in DOMAIN last_prices
                                       THEN last_prices[SingleLevelSymbol] ELSE 0,
                        previous |-> PreviousDirection]
    /\ UNCHANGED <<calculators, aggregators, history>>
    /\ UNCHANGED <<anVars, hubVars, queueVars, logVars, appVars, svcVars>>

SpecSingleLevel == Init /\ [][SingleLevelUpdate]_vars

\* C38: with one level and one symbol the results alternate: a result never
\* has the direction of the result before it, also when prices land exactly
\* on the level.
C38_DirectionsAlternate ==
    (ret.fn = "single_level" /\ ret.result # None /\ ret.previous # "")
        => ret.result[1].direction # ret.previous

\* C39: once stop() has returned on BinanceIngestor or FinageIngestor, no
\* further trade is produced to the log (or handed to on_trade, which
\* _process_message calls after the produce) and no further tick is put on
\* tick_queue.
C39_NothingPublishedAfterStop ==
    [][/\ ingestors["binance"].stopped => plog'.produced = plog.produced
       /\ ingestors["finage"].stopped => qlog'.sends = qlog.sends]_vars

(***************************************************************************)
(* services/analyzer.py: the cooldown of an alert without analysis         *)
(***************************************************************************)
\* trades the analyzer consumes while its alerts are gated
MaxCooldownTrades == 3

NextCooldown ==
    \/ AnalyzerConsume(MaxCooldownTrades)
    \/ MaybeTriggerFire
    \/ MaybeTriggerGate
    \/ ClockAdvance
    \/ \E field \in DOMAIN callbacks : SetCallback(field)
    \/ \E c \in AudienceConns : Connect(c)
    \/ \E c \in AudienceConns : ClientClose(c)
    \/ \E c \in AudienceConns : EndpointDisconnect(c)

SpecCooldown == Init /\ [][NextCooldown]_vars

\* C40: the cooldown entry of an alert's (symbol, trigger type) pair holds the
\* time of the alert before the audience gate is consulted and before the LLM
\* is called; the gate and the LLM call leave it alone and take the trigger off
\* the analyzer's hands whatever their outcome (no retry); and two alerts of
\* one pair are always a full cooldown apart, whatever became of the analysis
\* of the first.
C40_CooldownSetBeforeGateAndKept ==
    /\ []((pending # <<>> /\ pending[1].stage = "gate") =>
            LET key == CooldownKey(pending[1].trade.symbol, pending[1].trigger_type)
            IN  /\ key \in DOMAIN cooldowns
                /\ cooldowns[key] = outcome.at
                /\ outcome.fired /\ outcome.gate = "pending" /\ outcome.llm = "none")
    /\ []( \A i, j \in 1..Len(emitted) :
             (i < j /\ emitted[i].key = emitted[j].key)
                => emitted[j].at - emitted[i].at >= COOLDOWN_SECONDS)
    /\ [][(outcome.gate = "pending" /\ outcome'.gate # "pending") =>
            /\ cooldowns' = cooldowns
            /\ pending' = Tail(pending)
            /\ \A t \in Range(pending') : t.stage = "cooldown"]_vars

\* every alert fired so far had its analysis skipped for want of
\* subscribers, and a later trigger of the pair of one of them, 10 seconds
\* after it, was suppressed by the cooldown
C40_SuppressedAfterSkippedAnalysis ==
    /\ stats.alerts_triggered > 0
    /\ stats.alerts_skipped = stats.alerts_triggered
    /\ outcome.trigger # None
    /\ ~outcome.fired
    /\ LET p == outcome.trigger[1]
           key == CooldownKey(p.trade.symbol, p.trigger_type)
       IN  /\ key \in DOMAIN cooldowns
           /\ outcome.at = cooldowns[key] + 10

=============================================================================
